---- MODULE Spec2Model ----
(***************************************************************************)
(* Model of the dotty task store (src/src/store/useTaskStore.ts): the task *)
(* collection, the selection, and the store's operations, with the         *)
(* dependency-graph helpers computed as the code computes them.            *)
(***************************************************************************)
EXTENDS Integers, Sequences, FiniteSets, TLC

\* ---------------------------------------------------------------- bounds
\* The whole store (Spec): tasks the collection may hold, uuids addTask may
\* draw, uuids addSubtask may draw, dependency entries in the collection.
MaxTasks == 2
MaxIds == 2
MaxSubIds == 1
MaxEdges == 1
\* The dependency store with status and selection (SpecGraph,
\* SpecSelection): tasks held, uuids drawn.
MaxGraphTasks == 2
MaxGraphIds == 2
\* The dependency edges alone (SpecEdges): tasks held, dependency entries
\* in the collection.
MaxEdgeTasks == 3
MaxEdgeCount == 3
\* The inputs of isTaskBlocked (SpecBlocked): tasks in the collection,
\* entries in the dependencies of the task examined.
MaxBlockedTasks == 2
MaxBlockedDeps == 2
\* The inputs of getSortedTasks (SpecSorted): tasks in the collection.
MaxSortedTasks == 3
\* The inputs of getDueDateStatus (SpecDueDate): milliseconds a due date
\* lies off a threshold, to either side.
MaxDueSlack == 3
\* The checklists (SpecProgress): tasks held, uuids addSubtask may draw.
MaxProgressTasks == 1
MaxProgressSubIds == 3
\* The inputs of snapToGrid (SpecSnap): the largest coordinate, to either
\* side of 0.
MaxSnapValue == 30
\* The inputs of cleanupPositions (SpecCleanup): tasks in the collection.
MaxCleanupTasks == 2
\* Adding and deleting (SpecAddDelete): tasks held, uuids addTask may draw.
MaxAddDeleteTasks == 3
MaxAddDeleteIds == 4
\* Toggling with a selection (SpecToggle): tasks held, dependency entries
\* in the collection.
MaxToggleTasks == 2
MaxToggleEdges == 1
\* Updating with a selection (SpecUpdate): tasks held.
MaxUpdateTasks == 2
\* The status of the tasks (SpecStatus): uuids addTask may draw, uuids
\* addSubtask may draw, dependency entries and subtasks in the collection.
MaxStatusIds == 2
MaxStatusSubIds == 1
MaxStatusEntries == 1
\* The checklists of several tasks (SpecSubtasks): tasks held, uuids
\* addSubtask may draw.
MaxSubtaskTasks == 2
MaxSubtaskSubIds == 2
\* Loading (SpecMigrate): tasks in the persisted record.
MaxMigrateTasks == 2
\* Placing a dropped node (SpecPlace): columns and rows of the block of
\* nodes it is dropped on.
MaxWallColumns == 5
MaxWallRows == 3
\* The cycle check (SpecCycle): tasks in the collection, dependency entries
\* in the collection.
MaxCycleTasks == 2
MaxCycleEntries == 3
\* Initial positions (SpecInitial): the largest index.
MaxInitialIndex == 12
\* The order of the tasks (SpecOrder): uuids addTask may draw, uuids
\* addSubtask may draw, dependency entries and subtasks in the collection.
MaxOrderIds == 3
MaxOrderSubIds == 1
MaxOrderEntries == 1
\* The canvas (SpecCanvas): tasks held, uuids addTask may draw, dependency
\* entries in the collection.
MaxCanvasTasks == 2
MaxCanvasIds == 2
MaxCanvasEdges == 1

\* ------------------------------------------------------------- constants
GRID_SIZE == 20
NODE_WIDTH == 200
NODE_HEIGHT == 60
GAP == 40
\* CanvasView: the default padding of isOverlapping and the number of
\* positions getNonOverlappingPosition tries.
OVERLAP_PADDING == 20
maxAttempts == 50

\* An id that uuidv4 never returns: what a caller passes for a task that is
\* not (and never will be) in the collection.
GhostId == 0
\* The canvas beside the store (SpecMount): timers queued and not yet run,
\* uuids addTask may draw, uuids addSubtask may draw, dependency entries
\* and subtasks in the collection.
MaxMountTimers == 1
MaxMountIds == 2
MaxMountSubIds == 1
MaxMountEntries == 1
\* null, for selectedTaskId and dueDate; a present value v is <<v>>.
NULL == <<>>
Some(v) == <<v>>
\* The result of an operation that returns nothing.
Void == "void"
\* The console.warn messages of addDependency.
NoWarning == ""
WarnSelf == "Cannot add self-dependency"
WarnDuplicate == "Dependency already exists"
WarnCycle == "Cannot add dependency: would create a cycle"

VARIABLES
    tasks,            \* state.tasks: the ordered task collection
    selectedTaskId,   \* state.selectedTaskId: NULL or Some(id)
    nextId,           \* the next value uuidv4() returns to addTask
    nextSubId,        \* the next value uuidv4() returns to addSubtask
    now,              \* Date.now()
    last,             \* the operation applied last and what it returned
    canvas            \* the CanvasView instance and the timers it queued

vars == <<tasks, selectedTaskId, nextId, nextSubId, now, last, canvas>>

\* ------------------------------------------------------------- helpers
Indices(s) == 1..Len(s)
Includes(s, x) == \E i \in Indices(s) : s[i] = x
TaskIds(ts) == {ts[i].id : i \in Indices(ts)}
\* The ids of the tasks, in the order of the collection.
IdsOf(ts) == [i \in Indices(ts) |-> ts[i].id]

\* Array.prototype.find on the id: the index of the first task with that
\* id, 0 when there is none.
FindTask(ts, id) ==
    IF \E i \in Indices(ts) : ts[i].id = id
    THEN CHOOSE i \in Indices(ts) :
            ts[i].id = id /\ \A j \in 1..(i-1) : ts[j].id # id
    ELSE 0

\* Mutant of snapToGrid: the next multiple above, also for a multiple.
snapToGrid_NextAbove(value) == ((value + GRID_SIZE) \div GRID_SIZE) * GRID_SIZE

\* Mutant of snapToGrid: Math.floor in place of Math.round.
snapToGrid_Floor(value) == (value \div GRID_SIZE) * GRID_SIZE

\* Math.round(value / GRID_SIZE) * GRID_SIZE on integers: Math.round rounds
\* a half towards plus infinity.
snapToGrid(value) == ((value + (GRID_SIZE \div 2)) \div GRID_SIZE) * GRID_SIZE

\* Mutant of getInitialPosition: columns and rows without the gap.
getInitialPosition_NoGap(index) ==
    [x |-> snapToGrid(GRID_SIZE * 4 + (index % 3) * NODE_WIDTH),
     y |-> snapToGrid(GRID_SIZE * 4 + (index \div 3) * NODE_HEIGHT)]

\* index is 0-based, as in the code.
getInitialPosition(index) ==
    [x |-> snapToGrid(GRID_SIZE * 4 + (index % 3) * (NODE_WIDTH + GAP)),
     y |-> snapToGrid(GRID_SIZE * 4 + (index \div 3) * (NODE_HEIGHT + GAP))]

\* ------------------------------------------------- cycle detection (DFS)
\* The ids one task contributes to dependentsMap.get(depId): its own id,
\* once per occurrence of depId in its dependencies.
RECURSIVE dependentsFrom(_, _, _)
dependentsFrom(deps, taskId, depId) ==
    IF deps = <<>> THEN <<>>
    ELSE (IF Head(deps) = depId THEN <<taskId>> ELSE <<>>)
         \o dependentsFrom(Tail(deps), taskId, depId)

\* dependentsMap.get(depId) || []: the dependents in the order forEach
\* pushed them.
RECURSIVE dependentsMap(_, _)
dependentsMap(ts, depId) ==
    IF ts = <<>> THEN <<>>
    ELSE dependentsFrom(Head(ts).dependencies, Head(ts).id, depId)
         \o dependentsMap(Tail(ts), depId)

\* The while loop: pop the last element, stop on sourceId, skip visited
\* ids, push the dependents of the rest.
RECURSIVE cycleSearch(_, _, _, _)
cycleSearch(ts, sourceId, stack, visited) ==
    IF stack = <<>> THEN FALSE
    ELSE LET current == stack[Len(stack)]
             rest == SubSeq(stack, 1, Len(stack) - 1)
         IN  IF current = sourceId THEN TRUE
             ELSE IF current \in visited
                  THEN cycleSearch(ts, sourceId, rest, visited)
                  ELSE cycleSearch(ts, sourceId,
                                   rest \o dependentsMap(ts, current),
                                   visited \cup {current})

\* Mutant of cycleVisits: an id popped again is marked again.
RECURSIVE cycleVisits_MarksAgain(_, _, _, _)
cycleVisits_MarksAgain(ts, sourceId, stack, visited) ==
    IF stack = <<>> THEN <<>>
    ELSE LET current == stack[Len(stack)]
             rest == SubSeq(stack, 1, Len(stack) - 1)
         IN  IF current = sourceId THEN <<>>
             ELSE IF current \in visited
                  THEN <<current>> \o
                       cycleVisits_MarksAgain(ts, sourceId, rest, visited)
                  ELSE <<current>> \o
                       cycleVisits_MarksAgain(ts, sourceId,
                                              rest \o dependentsMap(ts, current),
                                              visited \cup {current})

\* The while loop: the ids it hands to visited.add, in that order.
RECURSIVE cycleVisits(_, _, _, _)
cycleVisits(ts, sourceId, stack, visited) ==
    IF stack = <<>> THEN <<>>
    ELSE LET current == stack[Len(stack)]
             rest == SubSeq(stack, 1, Len(stack) - 1)
         IN  IF current = sourceId THEN <<>>
             ELSE IF current \in visited
                  THEN cycleVisits(ts, sourceId, rest, visited)
                  ELSE <<current>> \o
                       cycleVisits(ts, sourceId,
                                   rest \o dependentsMap(ts, current),
                                   visited \cup {current})

\* Mutant of wouldCreateCycle: looks only at the direct dependents of
\* targetId, not at what is reachable through them.
wouldCreateCycle_DirectOnly(ts, sourceId, targetId) ==
    sourceId = targetId \/ Includes(dependentsMap(ts, targetId), sourceId)

wouldCreateCycle(ts, sourceId, targetId) ==
    cycleSearch(ts, sourceId, <<targetId>>, {})

\* ------------------------------------------------------------ operations
\* The record kept of an operation: its name, what it returned, what it
\* wrote with console.warn, and whether it changed tasks or selectedTaskId.
Outcome(op, ret, warn) ==
    [op |-> op, ret |-> ret, warn |-> warn,
     changed |-> (tasks' # tasks \/ selectedTaskId' # selectedTaskId)]

\* No CanvasView is rendered: no instance, no cleanupDone ref, no timer.
NoCanvas == [mounted |-> FALSE, cleanupDone |-> FALSE, timers |-> <<>>]

Init ==
    /\ tasks = <<>>
    /\ selectedTaskId = NULL
    /\ canvas = NoCanvas
    /\ nextId = 1
    /\ nextSubId = 1
    /\ now = 0
    /\ last = [op |-> "create", ret |-> Void, warn |-> NoWarning, changed |-> FALSE]

\* Mutant of addTaskResult: the new task is put behind the others.
addTaskResult_Appends(ts, id, title, createdAt) ==
    ts \o <<[id |-> id,
             title |-> title,
             status |-> "todo",
             createdAt |-> createdAt,
             position |-> getInitialPosition(Len(ts)),
             dependencies |-> <<>>,
             dueDate |-> NULL,
             description |-> "",
             subtasks |-> <<>>]>>

\* The collection addTask returns: id is what uuidv4() gives, createdAt
\* what Date.now() gives.
addTaskResult(ts, id, title, createdAt) ==
    LET newTask == [id |-> id,
                    title |-> title,
                    status |-> "todo",
                    createdAt |-> createdAt,
                    position |-> getInitialPosition(Len(ts)),
                    dependencies |-> <<>>,
                    dueDate |-> NULL,
                    description |-> "",
                    subtasks |-> <<>>]
    IN  <<newTask>> \o ts

\* elapsed: the milliseconds gone by since the operation before; Date.now()
\* does not go backwards.
addTask(title, elapsed) ==
    /\ tasks' = addTaskResult(tasks, nextId, title, now + elapsed)
    /\ nextId' = nextId + 1
    /\ now' = now + elapsed
    /\ UNCHANGED <<selectedTaskId, nextSubId, canvas>>
    /\ last' = Outcome("addTask", Void, NoWarning)

toggleTaskOne(task) ==
    [task EXCEPT !.status = IF task.status = "done" THEN "todo" ELSE "done"]

\* Mutant of toggleTaskResult: a task that becomes done goes to the end of
\* the collection.
toggleTaskResult_DoneGoesLast(ts, id) ==
    LET toggled == [i \in Indices(ts) |->
                       IF ts[i].id = id THEN toggleTaskOne(ts[i]) ELSE ts[i]]
        isDone(task) == task.id = id /\ task.status = "done"
    IN  SelectSeq(toggled, LAMBDA task : ~isDone(task))
        \o SelectSeq(toggled, isDone)

\* Mutant of toggleTaskResult: the status is set to done, never back to todo.
toggleTaskResult_OnlyToDone(ts, id) ==
    [i \in Indices(ts) |->
        IF ts[i].id = id THEN [ts[i] EXCEPT !.status = "done"] ELSE ts[i]]

\* The map of toggleTask.
toggleTaskResult(ts, id) ==
    [i \in Indices(ts) |->
        IF ts[i].id = id THEN toggleTaskOne(ts[i]) ELSE ts[i]]

\* Mutant of toggleTask: the selection is cleared.
toggleTask_ClearsSelection(id) ==
    /\ tasks' = toggleTaskResult(tasks, id)
    /\ selectedTaskId' = NULL
    /\ UNCHANGED <<nextId, nextSubId, now, canvas>>
    /\ last' = Outcome("toggleTask", Void, NoWarning)

toggleTask(id) ==
    /\ tasks' = toggleTaskResult(tasks, id)
    /\ UNCHANGED <<selectedTaskId, nextId, nextSubId, now, canvas>>
    /\ last' = Outcome("toggleTask", Void, NoWarning)

\* Mutant of deleteTaskResult: a task that loses a dependency is reopened.
deleteTaskResult_ReopensDependents(ts, id) ==
    LET kept == SelectSeq(ts, LAMBDA task : task.id # id)
    IN  [i \in Indices(kept) |->
            [kept[i] EXCEPT
                !.dependencies =
                    SelectSeq(kept[i].dependencies, LAMBDA depId : depId # id),
                !.status =
                    IF Includes(kept[i].dependencies, id) THEN "todo" ELSE @]]

\* Mutant of deleteTaskResult: removes the task and leaves the dependencies
\* of the others alone.
deleteTaskResult_NoCascade(ts, id) ==
    SelectSeq(ts, LAMBDA task : task.id # id)

\* deleteTask's two passes: the filter on the task id, then the filter of
\* every remaining task's dependencies.
deleteTaskResult(ts, id) ==
    LET kept == SelectSeq(ts, LAMBDA task : task.id # id)
    IN  [i \in Indices(kept) |->
            [kept[i] EXCEPT !.dependencies =
                SelectSeq(kept[i].dependencies, LAMBDA depId : depId # id)]]

\* Mutant of deleteTask: the selection is left as it was.
deleteTask_KeepsSelection(id) ==
    /\ tasks' = deleteTaskResult(tasks, id)
    /\ UNCHANGED <<selectedTaskId, nextId, nextSubId, now, canvas>>
    /\ last' = Outcome("deleteTask", Void, NoWarning)

deleteTask(id) ==
    /\ tasks' = deleteTaskResult(tasks, id)
    /\ selectedTaskId' = IF selectedTaskId = Some(id) THEN NULL ELSE selectedTaskId
    /\ UNCHANGED <<nextId, nextSubId, now, canvas>>
    /\ last' = Outcome("deleteTask", Void, NoWarning)

\* The set() of a successful addDependency.
addDependencyResult(ts, sourceId, targetId) ==
    [i \in Indices(ts) |->
        IF ts[i].id = targetId
        THEN [ts[i] EXCEPT !.dependencies = Append(ts[i].dependencies, sourceId)]
        ELSE ts[i]]

\* Mutant of addDependencyWarning: the check for an existing edge is missing.
addDependencyWarning_NoDuplicateCheck(ts, sourceId, targetId) ==
    IF sourceId = targetId THEN WarnSelf
    ELSE IF wouldCreateCycle(ts, sourceId, targetId) THEN WarnCycle
    ELSE NoWarning

\* The check addDependency stops at, as the message it warns with; NoWarning
\* when it goes on to set().
addDependencyWarning(ts, sourceId, targetId) ==
    LET k == FindTask(ts, targetId)
    IN  IF sourceId = targetId THEN WarnSelf
        ELSE IF k # 0 /\ Includes(ts[k].dependencies, sourceId) THEN WarnDuplicate
        ELSE IF wouldCreateCycle(ts, sourceId, targetId) THEN WarnCycle
        ELSE NoWarning

\* Mutant of addDependencyReturns: the self-dependency branch returns true.
addDependencyReturns_SelfAccepted(ts, sourceId, targetId) ==
    sourceId = targetId \/ addDependencyWarning(ts, sourceId, targetId) = NoWarning

\* What addDependency returns in the state ts.
addDependencyReturns(ts, sourceId, targetId) ==
    addDependencyWarning(ts, sourceId, targetId) = NoWarning

\* Mutant of addDependency: set() runs before the checks, so a refused call
\* has already written.
addDependency_SetsFirst(sourceId, targetId) ==
    /\ tasks' = addDependencyResult(tasks, sourceId, targetId)
    /\ UNCHANGED <<selectedTaskId, nextId, nextSubId, now, canvas>>
    /\ last' = Outcome("addDependency",
                       addDependencyReturns(tasks, sourceId, targetId),
                       addDependencyWarning(tasks, sourceId, targetId))

addDependency(sourceId, targetId) ==
    /\ tasks' = IF addDependencyReturns(tasks, sourceId, targetId)
                THEN addDependencyResult(tasks, sourceId, targetId)
                ELSE tasks
    /\ UNCHANGED <<selectedTaskId, nextId, nextSubId, now, canvas>>
    /\ last' = Outcome("addDependency",
                       addDependencyReturns(tasks, sourceId, targetId),
                       addDependencyWarning(tasks, sourceId, targetId))

\* Mutant of removeDependencyResult: filters sourceId out of every task,
\* not only out of the target.
removeDependencyResult_EveryTask(ts, sourceId, targetId) ==
    [i \in Indices(ts) |->
        [ts[i] EXCEPT !.dependencies =
            SelectSeq(ts[i].dependencies, LAMBDA id : id # sourceId)]]

removeDependencyResult(ts, sourceId, targetId) ==
    [i \in Indices(ts) |->
        IF ts[i].id = targetId
        THEN [ts[i] EXCEPT !.dependencies =
                SelectSeq(ts[i].dependencies, LAMBDA id : id # sourceId)]
        ELSE ts[i]]

removeDependency(sourceId, targetId) ==
    /\ tasks' = removeDependencyResult(tasks, sourceId, targetId)
    /\ UNCHANGED <<selectedTaskId, nextId, nextSubId, now, canvas>>
    /\ last' = Outcome("removeDependency", Void, NoWarning)

selectTask(sel) ==
    /\ selectedTaskId' = sel
    /\ UNCHANGED <<tasks, nextId, nextSubId, now, canvas>>
    /\ last' = Outcome("selectTask", Void, NoWarning)

\* Mutant of mergeTask: { ...updates, ...task }, the task's own fields win.
mergeTask_TaskWins(task, updates) ==
    [f \in (DOMAIN task) \cup (DOMAIN updates) |->
        IF f \in DOMAIN task THEN task[f] ELSE updates[f]]

\* { ...task, ...updates }: a field named in updates takes its value, every
\* other field keeps the task's.
mergeTask(task, updates) ==
    [f \in (DOMAIN task) \cup (DOMAIN updates) |->
        IF f \in DOMAIN updates THEN updates[f] ELSE task[f]]

updateTask(id, updates) ==
    /\ tasks' = [i \in Indices(tasks) |->
                    IF tasks[i].id = id THEN mergeTask(tasks[i], updates) ELSE tasks[i]]
    /\ UNCHANGED <<selectedTaskId, nextId, nextSubId, now, canvas>>
    /\ last' = Outcome("updateTask", Void, NoWarning)

snapPosition(position) ==
    [x |-> snapToGrid(position.x), y |-> snapToGrid(position.y)]

\* Mutant of updateTaskPositionResult: the position is stored as given.
updateTaskPositionResult_Unsnapped(ts, id, position) ==
    [i \in Indices(ts) |->
        IF ts[i].id = id THEN [ts[i] EXCEPT !.position = position] ELSE ts[i]]

\* The map of updateTaskPosition.
updateTaskPositionResult(ts, id, position) ==
    [i \in Indices(ts) |->
        IF ts[i].id = id
        THEN [ts[i] EXCEPT !.position = snapPosition(position)]
        ELSE ts[i]]

updateTaskPosition(id, position) ==
    /\ tasks' = updateTaskPositionResult(tasks, id, position)
    /\ UNCHANGED <<selectedTaskId, nextId, nextSubId, now, canvas>>
    /\ last' = Outcome("updateTaskPosition", Void, NoWarning)

\* task[f], or the default when the task has no such field (undefined).
FieldOr(task, f, default) == IF f \in DOMAIN task THEN task[f] ELSE default

\* Mutant of cleanupPositionsResult: a position that is there is kept as
\* it is.
cleanupPositionsResult_KeepsPositions(ts) ==
    [i \in Indices(ts) |->
        [f \in (DOMAIN ts[i])
                \cup {"position", "dependencies", "dueDate", "description", "subtasks"} |->
            CASE f = "position" ->
                    IF FieldOr(ts[i], "position", NULL) # NULL
                    THEN ts[i].position
                    ELSE getInitialPosition(i - 1)
              [] f = "dependencies" -> FieldOr(ts[i], f, <<>>)
              [] f = "dueDate" -> FieldOr(ts[i], f, NULL)
              [] f = "description" -> FieldOr(ts[i], f, "")
              [] f = "subtasks" -> FieldOr(ts[i], f, <<>>)
              [] OTHER -> ts[i][f]]]

\* The map of cleanupPositions: { ...task } with position, dependencies,
\* dueDate, description and subtasks set. index is the 0-based array
\* index; a position that is undefined is one that is NULL or not a field
\* of the task.
cleanupPositionsResult(ts) ==
    [i \in Indices(ts) |->
        [f \in (DOMAIN ts[i])
                \cup {"position", "dependencies", "dueDate", "description", "subtasks"} |->
            CASE f = "position" ->
                    IF FieldOr(ts[i], "position", NULL) # NULL
                    THEN snapPosition(ts[i].position)
                    ELSE getInitialPosition(i - 1)
              [] f = "dependencies" -> FieldOr(ts[i], f, <<>>)
              [] f = "dueDate" -> FieldOr(ts[i], f, NULL)
              [] f = "description" -> FieldOr(ts[i], f, "")
              [] f = "subtasks" -> FieldOr(ts[i], f, <<>>)
              [] OTHER -> ts[i][f]]]

cleanupPositions ==
    /\ tasks' = cleanupPositionsResult(tasks)
    /\ UNCHANGED <<selectedTaskId, nextId, nextSubId, now, canvas>>
    /\ last' = Outcome("cleanupPositions", Void, NoWarning)

\* Mutant of addSubtaskResult: the new subtask is put in front.
addSubtaskResult_Prepends(ts, taskId, id, title) ==
    [i \in Indices(ts) |->
        IF ts[i].id = taskId
        THEN [ts[i] EXCEPT !.subtasks =
                <<[id |-> id, title |-> title, done |-> FALSE]>> \o ts[i].subtasks]
        ELSE ts[i]]

\* The collection addSubtask returns: id is what uuidv4() gives.
addSubtaskResult(ts, taskId, id, title) ==
    [i \in Indices(ts) |->
        IF ts[i].id = taskId
        THEN [ts[i] EXCEPT !.subtasks =
                Append(ts[i].subtasks, [id |-> id, title |-> title, done |-> FALSE])]
        ELSE ts[i]]

addSubtask(taskId, title) ==
    /\ tasks' = addSubtaskResult(tasks, taskId, nextSubId, title)
    /\ nextSubId' = nextSubId + 1
    /\ UNCHANGED <<selectedTaskId, nextId, now, canvas>>
    /\ last' = Outcome("addSubtask", Void, NoWarning)

\* Mutant of toggleSubtaskResult: a task whose subtasks are all done is
\* marked done.
toggleSubtaskResult_CompletesTask(ts, taskId, subtaskId) ==
    [i \in Indices(ts) |->
        IF ts[i].id = taskId
        THEN LET subs == [k \in Indices(ts[i].subtasks) |->
                            IF ts[i].subtasks[k].id = subtaskId
                            THEN [ts[i].subtasks[k] EXCEPT
                                    !.done = ~ts[i].subtasks[k].done]
                            ELSE ts[i].subtasks[k]]
             IN  [ts[i] EXCEPT
                    !.subtasks = subs,
                    !.status = IF subs # <<>> /\ \A k \in Indices(subs) : subs[k].done
                               THEN "done" ELSE @]
        ELSE ts[i]]

\* The collection toggleSubtask returns.
toggleSubtaskResult(ts, taskId, subtaskId) ==
    [i \in Indices(ts) |->
        IF ts[i].id = taskId
        THEN [ts[i] EXCEPT !.subtasks =
                [k \in Indices(ts[i].subtasks) |->
                    IF ts[i].subtasks[k].id = subtaskId
                    THEN [ts[i].subtasks[k] EXCEPT
                            !.done = ~ts[i].subtasks[k].done]
                    ELSE ts[i].subtasks[k]]]
        ELSE ts[i]]

toggleSubtask(taskId, subtaskId) ==
    /\ tasks' = toggleSubtaskResult(tasks, taskId, subtaskId)
    /\ UNCHANGED <<selectedTaskId, nextId, nextSubId, now, canvas>>
    /\ last' = Outcome("toggleSubtask", Void, NoWarning)

\* Mutant of deleteSubtaskResult: the done subtasks go as well.
deleteSubtaskResult_DropsDone(ts, taskId, subtaskId) ==
    [i \in Indices(ts) |->
        IF ts[i].id = taskId
        THEN [ts[i] EXCEPT !.subtasks =
                SelectSeq(ts[i].subtasks,
                          LAMBDA sub : sub.id # subtaskId /\ ~sub.done)]
        ELSE ts[i]]

\* The collection deleteSubtask returns.
deleteSubtaskResult(ts, taskId, subtaskId) ==
    [i \in Indices(ts) |->
        IF ts[i].id = taskId
        THEN [ts[i] EXCEPT !.subtasks =
                SelectSeq(ts[i].subtasks, LAMBDA sub : sub.id # subtaskId)]
        ELSE ts[i]]

deleteSubtask(taskId, subtaskId) ==
    /\ tasks' = deleteSubtaskResult(tasks, taskId, subtaskId)
    /\ UNCHANGED <<selectedTaskId, nextId, nextSubId, now, canvas>>
    /\ last' = Outcome("deleteSubtask", Void, NoWarning)

\* --------------------------------------------------------- the canvas
\* The nodes the canvas derives from the tasks: a task without a position
\* is shown at the initial position of its index.
tasksToNodes(ts) ==
    [i \in Indices(ts) |->
        [id |-> ts[i].id,
         position |-> IF ts[i].position # NULL
                      THEN ts[i].position
                      ELSE getInitialPosition(i - 1)]]

isOverlapping(pos1, pos2) ==
    /\ pos1.x < pos2.x + NODE_WIDTH + OVERLAP_PADDING
    /\ pos1.x + NODE_WIDTH + OVERLAP_PADDING > pos2.x
    /\ pos1.y < pos2.y + NODE_HEIGHT + OVERLAP_PADDING
    /\ pos1.y + NODE_HEIGHT + OVERLAP_PADDING > pos2.y

\* otherNodes.some(...): position overlaps one of the nodes.
hasCollision(position, otherNodes) ==
    \E k \in Indices(otherNodes) : isOverlapping(position, otherNodes[k].position)

\* What the loop body makes of position after a collision: one step down,
\* and after every fifth attempt a step right, back at the snapped drop
\* height.
nextPosition(position, draggedNode, attempts) ==
    IF attempts % 5 = 4
    THEN [x |-> position.x + NODE_WIDTH + GRID_SIZE,
          y |-> snapToGrid(draggedNode.position.y)]
    ELSE [x |-> position.x, y |-> position.y + NODE_HEIGHT + GRID_SIZE]

\* The while loop of getNonOverlappingPosition: what it returns.
RECURSIVE nonOverlappingSearch(_, _, _, _)
nonOverlappingSearch(position, draggedNode, otherNodes, attempts) ==
    IF attempts >= maxAttempts THEN position
    ELSE IF ~hasCollision(position, otherNodes)
    THEN position
    ELSE nonOverlappingSearch(nextPosition(position, draggedNode, attempts),
                              draggedNode, otherNodes, attempts + 1)

\* The while loop of getNonOverlappingPosition: the positions it hands to
\* isOverlapping, in the order of the attempts.
RECURSIVE nonOverlappingProbes(_, _, _, _)
nonOverlappingProbes(position, draggedNode, otherNodes, attempts) ==
    IF attempts >= maxAttempts THEN <<>>
    ELSE IF ~hasCollision(position, otherNodes)
    THEN <<position>>
    ELSE <<position>> \o
         nonOverlappingProbes(nextPosition(position, draggedNode, attempts),
                              draggedNode, otherNodes, attempts + 1)

\* The positions getNonOverlappingPosition probes for the node and nodes
\* given.
probedPositions(draggedNode, allNodes) ==
    nonOverlappingProbes(snapPosition(draggedNode.position), draggedNode,
                         SelectSeq(allNodes, LAMBDA n : n.id # draggedNode.id), 0)

\* Mutant of getNonOverlappingPosition: the moved node is among the nodes
\* it is tested against.
getNonOverlappingPosition_TestsItself(draggedNode, allNodes) ==
    nonOverlappingSearch(snapPosition(draggedNode.position), draggedNode,
                         allNodes, 0)

getNonOverlappingPosition(draggedNode, allNodes) ==
    nonOverlappingSearch(snapPosition(draggedNode.position), draggedNode,
                         SelectSeq(allNodes, LAMBDA n : n.id # draggedNode.id), 0)

\* The drag of the node of task id ends at position: the canvas looks for
\* a free position among its nodes and hands it to updateTaskPosition.
onNodeDragStop(id, position) ==
    LET finalPosition ==
            getNonOverlappingPosition([id |-> id, position |-> position],
                                      tasksToNodes(tasks))
    IN  /\ tasks' = updateTaskPositionResult(tasks, id, finalPosition)
        /\ UNCHANGED <<selectedTaskId, nextId, nextSubId, now, canvas>>
        /\ last' = Outcome("onNodeDragStop", finalPosition, NoWarning)

\* ------------------------------------------------------------ arguments
\* The ids a caller can name: every uuid drawn so far, and one that no task
\* ever has.
ArgIds == (1..(nextId - 1)) \cup {GhostId}

\* The subtask ids a caller can name.
ArgSubIds == (1..(nextSubId - 1)) \cup {GhostId}

\* Points a caller passes to updateTaskPosition: off the grid, with a
\* negative coordinate.
ArgPoints == {[x |-> 30, y |-> -10]}

\* The partial tasks a caller passes to updateTask.
ArgUpdates ==
    {[title |-> "b"]} \cup {[dependencies |-> <<d>>] : d \in ArgIds}

\* The number of dependency entries in the collection.
RECURSIVE EdgeCount(_)
EdgeCount(ts) ==
    IF ts = <<>> THEN 0 ELSE Len(Head(ts).dependencies) + EdgeCount(Tail(ts))

\* ------------------------------------------- the dependency-graph store
\* The store driven only through addTask, toggleTask, deleteTask,
\* addDependency and removeDependency.
NextGraph ==
    \/ \E title \in {"a"} :
          /\ Len(tasks) < MaxGraphTasks
          /\ nextId <= MaxGraphIds
          /\ addTask(title, 1)
    \/ \E id \in ArgIds : toggleTask(id)
    \/ \E id \in ArgIds : deleteTask(id)
    \/ \E sourceId \in ArgIds, targetId \in ArgIds : addDependency(sourceId, targetId)
    \/ \E sourceId \in ArgIds, targetId \in ArgIds : removeDependency(sourceId, targetId)

SpecGraph == Init /\ [][NextGraph]_vars

\* The dependency operations with a selection: selectTask in place of
\* toggleTask.
NextSelection ==
    \/ \E title \in {"a"} :
          /\ Len(tasks) < MaxGraphTasks
          /\ nextId <= MaxGraphIds
          /\ addTask(title, 1)
    \/ \E id \in ArgIds : deleteTask(id)
    \/ \E sourceId \in ArgIds, targetId \in ArgIds : addDependency(sourceId, targetId)
    \/ \E sourceId \in ArgIds, targetId \in ArgIds : removeDependency(sourceId, targetId)
    \/ \E sel \in {NULL} \cup {Some(id) : id \in ArgIds} : selectTask(sel)

SpecSelection == Init /\ [][NextSelection]_vars

\* The operations that add tasks and add and remove edges, on larger
\* graphs.
NextEdges ==
    \/ \E title \in {"a"} :
          /\ Len(tasks) < MaxEdgeTasks
          /\ addTask(title, 1)
    \/ \E sourceId \in ArgIds, targetId \in ArgIds :
          /\ addDependency(sourceId, targetId)
          /\ EdgeCount(tasks') <= MaxEdgeCount
    \/ \E sourceId \in ArgIds, targetId \in ArgIds : removeDependency(sourceId, targetId)

SpecEdges == Init /\ [][NextEdges]_vars

\* The store driven only through addTask and deleteTask.
NextAddDelete ==
    \/ \E title \in {"a"} :
          /\ Len(tasks) < MaxAddDeleteTasks
          /\ nextId <= MaxAddDeleteIds
          /\ addTask(title, 1)
    \/ \E id \in ArgIds : deleteTask(id)

SpecAddDelete == Init /\ [][NextAddDelete]_vars

\* The store driven through addTask, toggleTask, addDependency and
\* selectTask.
NextToggle ==
    \/ \E title \in {"a"} :
          /\ Len(tasks) < MaxToggleTasks
          /\ addTask(title, 1)
    \/ \E id \in ArgIds : toggleTask(id)
    \/ \E sourceId \in ArgIds, targetId \in ArgIds :
          /\ addDependency(sourceId, targetId)
          /\ EdgeCount(tasks') <= MaxToggleEdges
    \/ \E sel \in {NULL} \cup {Some(id) : id \in ArgIds} : selectTask(sel)

SpecToggle == Init /\ [][NextToggle]_vars

\* The partial tasks a caller passes to updateTask, any field of a task
\* among them: one field, two fields, and the id (that of no task, so far)
\* with the creation time.
ArgPartialTasks ==
    {[title |-> "b"],
     [status |-> "done", description |-> "d"],
     [id |-> GhostId, createdAt |-> 0]}

\* The store driven through addTask, updateTask with any field, and
\* selectTask.
NextUpdate ==
    \/ \E title \in {"a"} :
          /\ Len(tasks) < MaxUpdateTasks
          /\ addTask(title, 1)
    \/ \E id \in ArgIds, updates \in ArgPartialTasks : updateTask(id, updates)
    \/ \E sel \in {NULL} \cup {Some(id) : id \in ArgIds} : selectTask(sel)

SpecUpdate == Init /\ [][NextUpdate]_vars

\* ------------------------------------------------------- the whole store
Next ==
    \/ \E title \in {"a"} :
          /\ Len(tasks) < MaxTasks
          /\ nextId <= MaxIds
          /\ addTask(title, 1)
    \/ \E id \in ArgIds : toggleTask(id)
    \/ \E id \in ArgIds : deleteTask(id)
    \/ \E id \in ArgIds, updates \in ArgUpdates :
          /\ updateTask(id, updates)
          /\ EdgeCount(tasks') <= MaxEdges
    \/ \E id \in ArgIds, position \in ArgPoints : updateTaskPosition(id, position)
    \/ cleanupPositions
    \/ \E sourceId \in ArgIds, targetId \in ArgIds :
          /\ addDependency(sourceId, targetId)
          /\ EdgeCount(tasks') <= MaxEdges
    \/ \E sourceId \in ArgIds, targetId \in ArgIds : removeDependency(sourceId, targetId)
    \/ \E sel \in {NULL} \cup {Some(id) : id \in ArgIds} : selectTask(sel)
    \/ \E taskId \in ArgIds, title \in {"s"} :
          /\ nextSubId <= MaxSubIds
          /\ addSubtask(taskId, title)
    \/ \E taskId \in ArgIds, subtaskId \in ArgSubIds : toggleSubtask(taskId, subtaskId)
    \/ \E taskId \in ArgIds, subtaskId \in ArgSubIds : deleteSubtask(taskId, subtaskId)

Spec == Init /\ [][Next]_vars

\* ------------------------------------------------------------ selectors
\* Mutant of isTaskBlocked: a dependency with no matching task blocks.
isTaskBlocked_MissingBlocks(task, allTasks) ==
    LET deps == task.dependencies
    IN  IF Len(deps) = 0 THEN FALSE
        ELSE \E k \in Indices(deps) :
                LET i == FindTask(allTasks, deps[k])
                IN  i = 0 \/ allTasks[i].status = "todo"

\* deps.some(...): find gives the first task with the id, and a missing
\* task (undefined) is falsy.
isTaskBlocked(task, allTasks) ==
    LET deps == task.dependencies
    IN  IF Len(deps) = 0 THEN FALSE
        ELSE \E k \in Indices(deps) :
                LET i == FindTask(allTasks, deps[k])
                IN  i # 0 /\ allTasks[i].status = "todo"

\* Mutant of getTaskPriority: one completed dependency is enough for
\* priority 1.
getTaskPriority_SomeDone(ts, task) ==
    LET deps == task.dependencies
    IN  IF Len(deps) = 0 THEN 0
        ELSE IF \E k \in Indices(deps) :
                   LET i == FindTask(ts, deps[k])
                   IN  i # 0 /\ ts[i].status = "done"
             THEN 1
             ELSE 2

\* getTaskPriority of getSortedTasks(ts): deps.every(...) is false for a
\* dependency with no matching task.
getTaskPriority(ts, task) ==
    LET deps == task.dependencies
    IN  IF Len(deps) = 0 THEN 0
        ELSE IF \A k \in Indices(deps) :
                   LET i == FindTask(ts, deps[k])
                   IN  i # 0 /\ ts[i].status = "done"
             THEN 1
             ELSE 2

\* The comparator handed to sort: negative when a goes first.
compareTasks(ts, a, b) ==
    LET priorityA == getTaskPriority(ts, a)
        priorityB == getTaskPriority(ts, b)
    IN  IF priorityA # priorityB
        THEN priorityA - priorityB
        ELSE b.createdAt - a.createdAt

\* Array.prototype.sort on the first k tasks: a stable sort, so a task goes
\* behind the last one that the comparator does not put after it.
RECURSIVE sortPrefix(_, _)
sortPrefix(ts, k) ==
    IF k = 0 THEN <<>>
    ELSE LET sorted == sortPrefix(ts, k - 1)
             before == {q \in Indices(sorted) : compareTasks(ts, sorted[q], ts[k]) <= 0}
             p == IF before = {} THEN 0
                  ELSE CHOOSE q \in before : \A r \in before : r <= q
         IN  SubSeq(sorted, 1, p) \o <<ts[k]>> \o SubSeq(sorted, p + 1, Len(sorted))

getSortedTasks(ts) == sortPrefix(ts, Len(ts))

\* 1000 * 60 * 60 * 24, the divisor of diffMs.
MS_PER_DAY == 1000 * 60 * 60 * 24

\* The null getDueDateStatus returns, beside its four strings.
NoStatus == "null"

\* dateNow is Date.now(). !dueDate holds for null and for 0. diffDays is
\* diffMs / MS_PER_DAY in floating point; the division is monotonic and
\* exact at 0, MS_PER_DAY and 3 * MS_PER_DAY, so diffDays < k is
\* diffMs < k * MS_PER_DAY.
getDueDateStatus(dueDate, dateNow) ==
    IF dueDate = NULL \/ dueDate = Some(0) THEN NoStatus
    ELSE LET diffMs == dueDate[1] - dateNow
         IN  IF diffMs < 0 THEN "overdue"
             ELSE IF diffMs < MS_PER_DAY THEN "urgent"
             ELSE IF diffMs < 3 * MS_PER_DAY THEN "soon"
             ELSE "normal"

\* Mutant of getSubtaskProgress: done counts the subtasks that are open.
getSubtaskProgress_CountsOpen(task) ==
    [done |-> Len(SelectSeq(task.subtasks, LAMBDA sub : ~sub.done)),
     total |-> Len(task.subtasks)]

getSubtaskProgress(task) ==
    [done |-> Len(SelectSeq(task.subtasks, LAMBDA sub : sub.done)),
     total |-> Len(task.subtasks)]

\* ------------------------------------------------- inputs of the selectors
\* The sequences over S of length n or less.
SeqsUpTo(S, n) == UNION {[1..k -> S] : k \in 0..n}

\* A task as the selectors are handed it: the fields they read are given,
\* the others are those of a fresh task.
TaskOf(id, status, createdAt, dependencies) ==
    [id |-> id,
     title |-> "a",
     status |-> status,
     createdAt |-> createdAt,
     position |-> getInitialPosition(0),
     dependencies |-> dependencies,
     dueDate |-> NULL,
     description |-> "",
     subtasks |-> <<>>]

\* isTaskBlocked is applied to collections of tasks with distinct ids and
\* either status, one of which (the task at index e) has any list of
\* dependencies over the ids of the collection and ids of no task, repeats
\* included.
InitBlocked ==
    /\ \E n \in 0..MaxBlockedTasks :
       \E e \in 1..MaxBlockedTasks :
       \E statuses \in [1..n -> {"todo", "done"}] :
       \E deps \in SeqsUpTo(0..(MaxBlockedTasks + 1), MaxBlockedDeps) :
          /\ e <= n \/ (e = 1 /\ deps = <<>>)
          /\ tasks = [i \in 1..n |->
                        TaskOf(i, statuses[i], 0, IF i = e THEN deps ELSE <<>>)]
    /\ selectedTaskId = NULL
    /\ canvas = NoCanvas
    /\ nextId = 1
    /\ nextSubId = 1
    /\ now = 0
    /\ last = [op |-> "create", ret |-> Void, warn |-> NoWarning, changed |-> FALSE]

\* A view asks whether the task at index i is blocked.
isTaskBlockedCall(i) ==
    /\ UNCHANGED <<tasks, selectedTaskId, nextId, nextSubId, now, canvas>>
    /\ last' = Outcome("isTaskBlocked", isTaskBlocked(tasks[i], tasks), NoWarning)

NextBlocked == \E i \in Indices(tasks) : isTaskBlockedCall(i)

SpecBlocked == InitBlocked /\ [][NextBlocked]_vars

\* The creation times and the dependency lists of the tasks getSortedTasks
\* is applied to: times that can tie; no dependency, an id of no task, one
\* task, two tasks.
SortedClocks == {1, 2}
SortedDeps == {<<>>, <<GhostId>>, <<1>>, <<1, 2>>}

\* getSortedTasks is applied to collections of tasks with distinct ids, in
\* any combination of status, creation time and dependencies.
InitSorted ==
    /\ \E n \in 0..MaxSortedTasks :
       \E f \in [1..n -> {"todo", "done"} \X SortedClocks \X SortedDeps] :
          tasks = [i \in 1..n |-> TaskOf(i, f[i][1], f[i][2], f[i][3])]
    /\ selectedTaskId = NULL
    /\ canvas = NoCanvas
    /\ nextId = 1
    /\ nextSubId = 1
    /\ now = 0
    /\ last = [op |-> "create", ret |-> Void, warn |-> NoWarning, changed |-> FALSE]

\* The list view sorts the collection.
getSortedTasksCall ==
    /\ UNCHANGED <<tasks, selectedTaskId, nextId, nextSubId, now, canvas>>
    /\ last' = Outcome("getSortedTasks", getSortedTasks(tasks), NoWarning)

NextSorted == getSortedTasksCall

SpecSorted == InitSorted /\ [][NextSorted]_vars

\* The times getDueDateStatus is called at, and the due dates it is handed
\* at the time t: none, the timestamp 0, and the timestamps around t,
\* t + 24h and t + 72h.
DueClocks == {4 * MS_PER_DAY, 4 * MS_PER_DAY + 1, 5 * MS_PER_DAY}
DueDates(t) ==
    {NULL, Some(0)}
    \cup {Some(t + k * MS_PER_DAY + d) : k \in {0, 1, 3}, d \in (-MaxDueSlack)..MaxDueSlack}

\* getDueDateStatus is applied to the due date of a task at some time.
InitDueDate ==
    /\ now \in DueClocks
    /\ \E dueDate \in DueDates(now) :
          tasks = <<[TaskOf(1, "todo", 0, <<>>) EXCEPT !.dueDate = dueDate]>>
    /\ selectedTaskId = NULL
    /\ canvas = NoCanvas
    /\ nextId = 1
    /\ nextSubId = 1
    /\ last = [op |-> "create", ret |-> Void, warn |-> NoWarning, changed |-> FALSE]

\* A view asks for the status of the due date of the task at index i.
getDueDateStatusCall(i) ==
    /\ UNCHANGED <<tasks, selectedTaskId, nextId, nextSubId, now, canvas>>
    /\ last' = Outcome("getDueDateStatus", getDueDateStatus(tasks[i].dueDate, now), NoWarning)

NextDueDate == \E i \in Indices(tasks) : getDueDateStatusCall(i)

SpecDueDate == InitDueDate /\ [][NextDueDate]_vars

\* --------------------------------------------- inputs of cleanupPositions
\* The task without the fields named: a task stored before they existed.
Without(task, fields) == [f \in (DOMAIN task) \ fields |-> task[f]]

\* The positions of the tasks cleanupPositions is applied to: none, on the
\* grid, off the grid with a negative coordinate.
CleanupPoints == {NULL, [x |-> 80, y |-> 80], [x |-> 85, y |-> -30]}

\* The tasks cleanupPositions is applied to, with the id given: of either
\* status, with or without a dependency, at any of the positions; and the
\* same tasks as stored before position (when they have none),
\* dependencies, dueDate, description and subtasks existed.
CleanupTasks(id) ==
    LET full == {[TaskOf(id, status, id, deps) EXCEPT !.position = position] :
                    status \in {"todo", "done"},
                    deps \in {<<>>, <<id + 1>>},
                    position \in CleanupPoints}
        old == {Without(task, {"dependencies", "dueDate", "description", "subtasks"}
                              \cup (IF task.position = NULL THEN {"position"} ELSE {})) :
                    task \in {t \in full : t.dependencies = <<>>}}
    IN  full \cup old

InitCleanup ==
    /\ \E n \in 0..MaxCleanupTasks :
       \E f \in [1..n -> UNION {CleanupTasks(id) : id \in 1..MaxCleanupTasks}] :
          /\ \A i \in 1..n : f[i].id = i
          /\ tasks = [i \in 1..n |-> f[i]]
    /\ selectedTaskId = NULL
    /\ canvas = NoCanvas
    /\ nextId = 1
    /\ nextSubId = 1
    /\ now = 0
    /\ last = [op |-> "create", ret |-> Void, warn |-> NoWarning, changed |-> FALSE]

NextCleanup == cleanupPositions

SpecCleanup == InitCleanup /\ [][NextCleanup]_vars

\* ------------------------------------------------- the store and canvas
\* Points a drag ends at or a caller passes to updateTaskPosition: on the
\* first initial position but off the grid, and off the grid with a
\* negative coordinate.
CanvasPoints == {[x |-> 85, y |-> 75], [x |-> -30, y |-> 130]}

\* The store driven through the task and dependency operations, the
\* position operations and drags on the canvas.
NextCanvas ==
    \/ \E title \in {"a"} :
          /\ Len(tasks) < MaxCanvasTasks
          /\ nextId <= MaxCanvasIds
          /\ addTask(title, 1)
    \/ \E id \in ArgIds : deleteTask(id)
    \/ \E id \in ArgIds : toggleTask(id)
    \/ \E sourceId \in ArgIds, targetId \in ArgIds :
          /\ addDependency(sourceId, targetId)
          /\ EdgeCount(tasks') <= MaxCanvasEdges
    \/ \E sourceId \in ArgIds, targetId \in ArgIds : removeDependency(sourceId, targetId)
    \/ \E id \in ArgIds, position \in CanvasPoints : updateTaskPosition(id, position)
    \/ cleanupPositions
    \/ \E id \in TaskIds(tasks), position \in CanvasPoints : onNodeDragStop(id, position)

SpecCanvas == Init /\ [][NextCanvas]_vars

\* ------------------------------------------------------ the checklists
\* A view asks for the progress of the task at index i.
getSubtaskProgressCall(i) ==
    /\ UNCHANGED <<tasks, selectedTaskId, nextId, nextSubId, now, canvas>>
    /\ last' = Outcome("getSubtaskProgress", getSubtaskProgress(tasks[i]), NoWarning)

\* The store driven through addTask and the subtask operations.
NextProgress ==
    \/ \E title \in {"a"} :
          /\ Len(tasks) < MaxProgressTasks
          /\ addTask(title, 1)
    \/ \E taskId \in ArgIds, title \in {"s"} :
          /\ nextSubId <= MaxProgressSubIds
          /\ addSubtask(taskId, title)
    \/ \E taskId \in ArgIds, subtaskId \in ArgSubIds : toggleSubtask(taskId, subtaskId)
    \/ \E taskId \in ArgIds, subtaskId \in ArgSubIds : deleteSubtask(taskId, subtaskId)
    \/ \E i \in Indices(tasks) : getSubtaskProgressCall(i)

SpecProgress == Init /\ [][NextProgress]_vars

\* The store driven through addTask and the subtask operations, with more
\* than one task.
NextSubtasks ==
    \/ \E title \in {"a"} :
          /\ Len(tasks) < MaxSubtaskTasks
          /\ addTask(title, 1)
    \/ \E taskId \in ArgIds, title \in {"s"} :
          /\ nextSubId <= MaxSubtaskSubIds
          /\ addSubtask(taskId, title)
    \/ \E taskId \in ArgIds, subtaskId \in ArgSubIds : toggleSubtask(taskId, subtaskId)
    \/ \E taskId \in ArgIds, subtaskId \in ArgSubIds : deleteSubtask(taskId, subtaskId)

SpecSubtasks == Init /\ [][NextSubtasks]_vars

\* ------------------------------------------------------------ the grid
\* snapToGrid is applied to the coordinates of a position: any two
\* integers, negative ones included.
InitSnap ==
    /\ \E x \in (-MaxSnapValue)..MaxSnapValue, y \in (-MaxSnapValue)..MaxSnapValue :
          tasks = <<[TaskOf(1, "todo", 0, <<>>) EXCEPT !.position = [x |-> x, y |-> y]]>>
    /\ selectedTaskId = NULL
    /\ canvas = NoCanvas
    /\ nextId = 1
    /\ nextSubId = 1
    /\ now = 0
    /\ last = [op |-> "create", ret |-> Void, warn |-> NoWarning, changed |-> FALSE]

\* One call of snapToGrid.
snapToGridCall(value) ==
    /\ UNCHANGED <<tasks, selectedTaskId, nextId, nextSubId, now, canvas>>
    /\ last' = Outcome("snapToGrid", snapToGrid(value), NoWarning)

NextSnap ==
    \E i \in Indices(tasks) :
        \/ snapToGridCall(tasks[i].position.x)
        \/ snapToGridCall(tasks[i].position.y)

SpecSnap == InitSnap /\ [][NextSnap]_vars

\* ------------------------------------------------- inputs of the cycle check
\* The ways to give n tasks dependencies lists over ids with at most
\* entries entries in all.
RECURSIVE DependencyLists(_, _, _)
DependencyLists(n, ids, entries) ==
    IF n = 0 THEN {<<>>}
    ELSE UNION {{<<deps>> \o rest :
                    rest \in DependencyLists(n - 1, ids, entries - Len(deps))} :
                deps \in SeqsUpTo(ids, entries)}

\* wouldCreateCycle is applied to collections as updateTask can leave them:
\* any dependencies over the ids of the tasks and one id no task has, with
\* cycles, self-dependencies, dangling ids and duplicate entries.
InitCycle ==
    /\ \E n \in 0..MaxCycleTasks :
       \E lists \in DependencyLists(n, 0..n, MaxCycleEntries) :
          tasks = [i \in 1..n |-> TaskOf(i, "todo", i, lists[i])]
    /\ selectedTaskId = NULL
    /\ canvas = NoCanvas
    /\ nextId = 1
    /\ nextSubId = 1
    /\ now = 0
    /\ last = [op |-> "create", ret |-> Void, warn |-> NoWarning, changed |-> FALSE]

\* addDependency asks whether the edge would close a cycle.
wouldCreateCycleCall(sourceId, targetId) ==
    /\ UNCHANGED <<tasks, selectedTaskId, nextId, nextSubId, now, canvas>>
    /\ last' = Outcome("wouldCreateCycle",
                       wouldCreateCycle(tasks, sourceId, targetId), NoWarning)

NextCycle ==
    \E sourceId \in TaskIds(tasks) \cup {GhostId},
       targetId \in TaskIds(tasks) \cup {GhostId} :
        wouldCreateCycleCall(sourceId, targetId)

SpecCycle == InitCycle /\ [][NextCycle]_vars

\* ------------------------------------------- inputs of getInitialPosition
\* getInitialPosition is applied to the length of the collection: the two
\* indices asked for are in last.ret.
InitInitial ==
    /\ tasks = <<>>
    /\ selectedTaskId = NULL
    /\ canvas = NoCanvas
    /\ nextId = 1
    /\ nextSubId = 1
    /\ now = 0
    /\ \E i \in 0..MaxInitialIndex, j \in 0..MaxInitialIndex :
          last = [op |-> "indices", ret |-> <<i, j>>,
                  warn |-> NoWarning, changed |-> FALSE]

\* addTask asks for the position of the task at index.
getInitialPositionCall(index) ==
    /\ last.op = "indices"
    /\ UNCHANGED <<tasks, selectedTaskId, nextId, nextSubId, now, canvas>>
    /\ last' = Outcome("getInitialPosition", getInitialPosition(index), NoWarning)

NextInitial ==
    \/ getInitialPositionCall(last.ret[1])
    \/ getInitialPositionCall(last.ret[2])

SpecInitial == InitInitial /\ [][NextInitial]_vars

\* -------------------------------------------------- placing a dropped node
\* The points a node is dropped at: on its own node at the corner of the
\* block, off the grid; one column further right; far from every node.
DropPoints == {[x |-> 85, y |-> 75], [x |-> 290, y |-> 170], [x |-> -400, y |-> -400]}

\* The position of the node at column c and row r of the block: each
\* overlaps two columns and two rows of the positions probed from (80, 80).
WallPosition(c, r) == [x |-> 180 + c * 2 * (NODE_WIDTH + GRID_SIZE),
                       y |-> 120 + r * 2 * (NODE_HEIGHT + GRID_SIZE)]

\* getNonOverlappingPosition is applied to the nodes of a collection as
\* addTask and updateTaskPosition leave it: the task moved, at (80, 80),
\* and a block of up to MaxWallColumns by MaxWallRows tasks on the grid,
\* whole or with one of them missing.
InitPlace ==
    /\ \E columns \in 0..MaxWallColumns, rows \in 0..MaxWallRows :
       \E hole \in 0..(columns * rows) :
          LET cells == SelectSeq([k \in 1..(columns * rows) |-> k],
                                 LAMBDA k : k # hole)
          IN  tasks = <<TaskOf(1, "todo", 1, <<>>)>> \o
                      [n \in Indices(cells) |->
                          [TaskOf(cells[n] + 1, "todo", cells[n] + 1, <<>>)
                              EXCEPT !.position =
                                  WallPosition((cells[n] - 1) % columns,
                                               (cells[n] - 1) \div columns)]]
    /\ selectedTaskId = NULL
    /\ canvas = NoCanvas
    /\ nextId = 1
    /\ nextSubId = 1
    /\ now = 0
    /\ last = [op |-> "create", ret |-> Void, warn |-> NoWarning, changed |-> FALSE]

\* onNodeDragStop asks where the node of task id, dropped at position,
\* is to go.
getNonOverlappingPositionCall(id, position) ==
    /\ UNCHANGED <<tasks, selectedTaskId, nextId, nextSubId, now, canvas>>
    /\ last' = Outcome("getNonOverlappingPosition",
                       getNonOverlappingPosition([id |-> id, position |-> position],
                                                 tasksToNodes(tasks)),
                       NoWarning)

NextPlace ==
    \E id \in {1, 2} \cap TaskIds(tasks), position \in DropPoints :
        getNonOverlappingPositionCall(id, position)

SpecPlace == InitPlace /\ [][NextPlace]_vars

\* --------------------------------------------------------- persistence
\* The version of the persist options: the schema version records are
\* written with.
CurrentVersion == 3

\* Mutant of migrate: every checklist is seeded with an empty item.
migrate_SeedsSubtask(persistedState, version) ==
    IF version < CurrentVersion /\ "tasks" \in DOMAIN persistedState
    THEN [persistedState EXCEPT !.tasks =
            [i \in Indices(persistedState.tasks) |->
                LET task == persistedState.tasks[i]
                IN  [f \in (DOMAIN task)
                            \cup {"dependencies", "dueDate", "description", "subtasks"} |->
                        CASE f = "dependencies" -> FieldOr(task, f, <<>>)
                          [] f = "dueDate" -> FieldOr(task, f, NULL)
                          [] f = "description" -> FieldOr(task, f, "")
                          [] f = "subtasks" ->
                                Append(FieldOr(task, f, <<>>),
                                       [id |-> GhostId, title |-> "", done |-> FALSE])
                          [] OTHER -> task[f]]]]
    ELSE persistedState

\* migrate of the persist options. The persisted state is a record with
\* the field tasks, or without it; a field a task does not have reads as
\* undefined, which || and ?? replace by the default.
migrate(persistedState, version) ==
    IF version < CurrentVersion /\ "tasks" \in DOMAIN persistedState
    THEN [persistedState EXCEPT !.tasks =
            [i \in Indices(persistedState.tasks) |->
                LET task == persistedState.tasks[i]
                IN  [f \in (DOMAIN task)
                            \cup {"dependencies", "dueDate", "description", "subtasks"} |->
                        CASE f = "dependencies" -> FieldOr(task, f, <<>>)
                          [] f = "dueDate" -> FieldOr(task, f, NULL)
                          [] f = "description" -> FieldOr(task, f, "")
                          [] f = "subtasks" -> FieldOr(task, f, <<>>)
                          [] OTHER -> task[f]]]]
    ELSE persistedState

\* The versions older than the current one.
OldVersions == 0..(CurrentVersion - 1)

\* The versions of a record that is migrated: persist calls migrate when
\* the stored version is not the current one, older or newer.
StoredVersions == OldVersions \cup {CurrentVersion + 1}

\* The fields a task of an older schema may lack.
LaterFields == {"position", "dependencies", "dueDate", "description", "subtasks"}

\* The stored tasks with the id given: a task with every field set to
\* something other than its default, and the same task as stored before
\* any of the later fields existed.
PersistedTasks(id) ==
    LET full == [id |-> id,
                 title |-> "a",
                 status |-> "done",
                 createdAt |-> id,
                 position |-> [x |-> 320, y |-> 80],
                 dependencies |-> <<id + 1>>,
                 dueDate |-> Some(5),
                 description |-> "d",
                 subtasks |-> <<[id |-> 1, title |-> "s", done |-> TRUE]>>]
    IN  {Without(full, missing) : missing \in SUBSET LaterFields}

\* The store after construction, before the record found in the storage
\* is loaded: the record (last.ret) has up to MaxMigrateTasks tasks, or no
\* tasks field.
InitMigrate ==
    /\ tasks = <<>>
    /\ selectedTaskId = NULL
    /\ canvas = NoCanvas
    /\ nextId = 1
    /\ nextSubId = 1
    /\ now = 0
    /\ \E n \in 0..MaxMigrateTasks :
       \E f \in [1..n -> UNION {PersistedTasks(id) : id \in 1..MaxMigrateTasks}] :
       \E hasTasks \in BOOLEAN :
          /\ \A i \in 1..n : f[i].id = i
          /\ ~hasTasks => n = 0
          /\ last = [op |-> "persisted",
                     ret |-> IF hasTasks
                             THEN [tasks |-> [i \in 1..n |-> f[i]]]
                             ELSE Without([tasks |-> <<>>], {"tasks"}),
                     warn |-> NoWarning,
                     changed |-> FALSE]

\* The load: persist passes the record to migrate and merges the result
\* over the state of the store.
migrateCall(version) ==
    /\ last.op = "persisted"
    /\ tasks' = FieldOr(migrate(last.ret, version), "tasks", tasks)
    /\ UNCHANGED <<selectedTaskId, nextId, nextSubId, now, canvas>>
    /\ last' = Outcome("migrate", migrate(last.ret, version), NoWarning)

NextMigrate == \E version \in StoredVersions : migrateCall(version)

SpecMigrate == InitMigrate /\ [][NextMigrate]_vars

\* ---------------------------------------------------------- the status
\* The partial tasks a caller passes to updateTask here: one names the
\* status, one does not.
StatusUpdates == {[status |-> "done"], [title |-> "a"]}

\* The number of dependency entries and subtasks in the collection.
RECURSIVE EntryCount(_)
EntryCount(ts) ==
    IF ts = <<>>
    THEN 0
    ELSE Len(Head(ts).dependencies) + Len(Head(ts).subtasks) + EntryCount(Tail(ts))

\* The store driven through every operation that writes the tasks.
NextStatus ==
    \/ \E title \in {"a"} :
          /\ nextId <= MaxStatusIds
          /\ addTask(title, 1)
    \/ \E id \in ArgIds : toggleTask(id)
    \/ \E id \in ArgIds : deleteTask(id)
    \/ \E id \in ArgIds, updates \in StatusUpdates : updateTask(id, updates)
    \/ \E sourceId \in ArgIds, targetId \in ArgIds :
          /\ addDependency(sourceId, targetId)
          /\ EntryCount(tasks') <= MaxStatusEntries
    \/ \E sourceId \in ArgIds, targetId \in ArgIds : removeDependency(sourceId, targetId)
    \/ \E id \in ArgIds, position \in ArgPoints : updateTaskPosition(id, position)
    \/ cleanupPositions
    \/ \E taskId \in ArgIds, title \in {"s"} :
          /\ nextSubId <= MaxStatusSubIds
          /\ addSubtask(taskId, title)
          /\ EntryCount(tasks') <= MaxStatusEntries
    \/ \E taskId \in ArgIds, subtaskId \in ArgSubIds : toggleSubtask(taskId, subtaskId)
    \/ \E taskId \in ArgIds, subtaskId \in ArgSubIds : deleteSubtask(taskId, subtaskId)

SpecStatus == Init /\ [][NextStatus]_vars

\* ----------------------------------------------------------- the order
\* The task id the callers of SpecOrder name where the order cannot depend
\* on which task is named: the second task, also after it was deleted.
OrderIds == {2}

\* The store driven through every operation but updateTask, with up to
\* MaxOrderIds tasks, all of them added before the first is deleted.
NextOrder ==
    \/ \E title \in {"a"} :
          /\ nextId <= MaxOrderIds
          /\ Len(tasks) = nextId - 1
          /\ addTask(title, 1)
    \/ \E id \in ArgIds : deleteTask(id)
    \/ \E id \in OrderIds : toggleTask(id)
    \/ \E sourceId \in ArgIds, targetId \in OrderIds :
          /\ addDependency(sourceId, targetId)
          /\ EntryCount(tasks') <= MaxOrderEntries
    \/ \E sourceId \in ArgIds, targetId \in OrderIds : removeDependency(sourceId, targetId)
    \/ \E sel \in {NULL} \cup {Some(id) : id \in OrderIds} : selectTask(sel)
    \/ \E id \in OrderIds, position \in ArgPoints : updateTaskPosition(id, position)
    \/ cleanupPositions
    \/ \E taskId \in OrderIds, title \in {"s"} :
          /\ nextSubId <= MaxOrderSubIds
          /\ addSubtask(taskId, title)
          /\ EntryCount(tasks') <= MaxOrderEntries
    \/ \E taskId \in OrderIds, subtaskId \in ArgSubIds : toggleSubtask(taskId, subtaskId)
    \/ \E taskId \in OrderIds, subtaskId \in ArgSubIds : deleteSubtask(taskId, subtaskId)

SpecOrder == Init /\ [][NextOrder]_vars

\* ------------------------------------------ the cleanup of the CanvasView
\* Mutant of cleanupEffectResult: the cleanupDone ref is not looked at.
cleanupEffectResult_NoRef(c, ts) ==
    [c EXCEPT !.cleanupDone = TRUE, !.timers = Append(@, [rendered |-> IdsOf(ts)])]

\* The body of the effect, on the instance c rendered with the tasks ts:
\* when the ref is not set it is set and setTimeout(callback, 0) is called.
\* A queued callback is told apart by the ids of the tasks of its render.
cleanupEffectResult(c, ts) ==
    IF ~c.cleanupDone
    THEN [c EXCEPT !.cleanupDone = TRUE, !.timers = Append(@, [rendered |-> IdsOf(ts)])]
    ELSE c

\* Mutant of cleanupTimerResult: only the tasks of the render that queued
\* the callback are cleaned up and kept.
cleanupTimerResult_FromRender(ts, callback) ==
    cleanupPositionsResult(SelectSeq(ts, LAMBDA t : Includes(callback.rendered, t.id)))

\* The collection the callback leaves in the store whose tasks are ts:
\* cleanupPositions() maps the state it is handed by set.
cleanupTimerResult(ts, callback) ==
    cleanupPositionsResult(ts)

\* A CanvasView is rendered for the first time: useRef(false) makes the
\* ref of the new instance and the effect runs.
mountCanvas ==
    /\ ~canvas.mounted
    /\ Len(canvas.timers) < MaxMountTimers
    /\ canvas' = cleanupEffectResult(
                    [canvas EXCEPT !.mounted = TRUE, !.cleanupDone = FALSE], tasks)
    /\ UNCHANGED <<tasks, selectedTaskId, nextId, nextSubId, now>>
    /\ last' = Outcome("mountCanvas", Void, NoWarning)

\* The effect runs once more on the instance that is rendered.
cleanupEffect ==
    /\ canvas.mounted
    /\ canvas' = cleanupEffectResult(canvas, tasks)
    /\ UNCHANGED <<tasks, selectedTaskId, nextId, nextSubId, now>>
    /\ last' = Outcome("cleanupEffect", Void, NoWarning)

\* The instance is taken off the page. The effect returns no cleanup
\* function: a timer that is queued stays queued.
unmountCanvas ==
    /\ canvas.mounted
    /\ canvas' = [canvas EXCEPT !.mounted = FALSE]
    /\ UNCHANGED <<tasks, selectedTaskId, nextId, nextSubId, now>>
    /\ last' = Outcome("unmountCanvas", Void, NoWarning)

\* The timer queued first runs its callback. ret tells the ids of the
\* tasks the callback was queued with.
cleanupTimer ==
    /\ canvas.timers # <<>>
    /\ tasks' = cleanupTimerResult(tasks, Head(canvas.timers))
    /\ canvas' = [canvas EXCEPT !.timers = Tail(@)]
    /\ UNCHANGED <<selectedTaskId, nextId, nextSubId, now>>
    /\ last' = Outcome("cleanupTimer", Head(canvas.timers).rendered, NoWarning)

\* The task the callers of SpecMount toggle, update and give a dependency
\* or a subtask: the first.
MountIds == {1}

\* What the callers of SpecMount pass to updateTask: a title, a position
\* off the grid.
MountUpdates == {[title |-> "b"], [position |-> [x |-> 85, y |-> 75]]}

\* The CanvasView mounted, rendered again and unmounted while the store
\* is used, with up to MaxMountIds tasks, all of them added before the
\* first is deleted.
NextMount ==
    \/ mountCanvas
    \/ cleanupEffect
    \/ unmountCanvas
    \/ cleanupTimer
    \/ \E title \in {"a"} :
          /\ nextId <= MaxMountIds
          /\ Len(tasks) = nextId - 1
          /\ addTask(title, 1)
    \/ \E id \in TaskIds(tasks) : deleteTask(id)
    \/ \E id \in MountIds : toggleTask(id)
    \/ \E id \in MountIds, updates \in MountUpdates : updateTask(id, updates)
    \/ \E sourceId \in {2}, targetId \in MountIds :
          /\ addDependency(sourceId, targetId)
          /\ EntryCount(tasks') <= MaxMountEntries
    \/ \E taskId \in MountIds, title \in {"s"} :
          /\ nextSubId <= MaxMountSubIds
          /\ addSubtask(taskId, title)
          /\ EntryCount(tasks') <= MaxMountEntries

SpecMount == Init /\ [][NextMount]_vars

\* ------------------------------------------ the dependency graph, as sets
Entries(seq) == {seq[k] : k \in 1..Len(seq)}

\* The ids in the dependencies of the tasks with the given id.
DepsOf(ts, id) ==
    UNION {Entries(ts[i].dependencies) : i \in {j \in Indices(ts) : ts[j].id = id}}

\* The dependents relation: x -> y when x is in y.dependencies.
Dependents(ts, x) ==
    {ts[i].id : i \in {j \in Indices(ts) : x \in Entries(ts[j].dependencies)}}

\* The least set that holds S and is closed under the dependents relation.
RECURSIVE ReachSet(_, _)
ReachSet(ts, S) ==
    LET N == S \cup UNION {Dependents(ts, x) : x \in S}
    IN  IF N = S THEN S ELSE ReachSet(ts, N)

\* to is reachable from from along the dependents relation, in 0 or more steps.
Reachable(ts, from, to) == to \in ReachSet(ts, {from})

\* No id comes back to itself in one or more steps (self-loops included).
Acyclic(ts) == \A n \in TaskIds(ts) : n \notin ReachSet(ts, Dependents(ts, n))

NoDuplicates(seq) == \A p, q \in 1..Len(seq) : p # q => seq[p] # seq[q]

\* new is old without x: the same other entries, as often, in the same order.
RemovedFrom(old, new, x) ==
    /\ x \notin Entries(new)
    /\ Entries(new) = Entries(old) \ {x}
    /\ Len(new) = Cardinality({k \in 1..Len(old) : old[k] # x})
    /\ \A p, q \in 1..Len(new) :
          p < q => \E pp, qq \in 1..Len(old) :
                      pp < qq /\ old[pp] = new[p] /\ old[qq] = new[q]

\* ---------------------------------------------------------------- claims

\* C1: after any sequence of store operations the graph with an edge
\* d -> t.id for every d in t.dependencies has no cycle, self-loops included.
C1_GraphAcyclic == Acyclic(tasks)

\* C2: for distinct existing tasks s and t with s not in t.dependencies,
\* addDependency(s, t) returns true if and only if s is not reachable from t
\* along the dependents relation of the current graph.
C2_AddDependencyIffNoPath ==
    \A s \in TaskIds(tasks), t \in TaskIds(tasks) :
        (s # t /\ s \notin DepsOf(tasks, t))
        => (addDependencyReturns(tasks, s, t) <=> ~Reachable(tasks, t, s))

\* A call was refused for a cycle in a state that holds a chain a -> b -> c.
C2_CycleRefusedOnChain ==
    /\ last.op = "addDependency"
    /\ last.warn = WarnCycle
    /\ \E a, b, c \in TaskIds(tasks) :
          /\ a # b /\ b # c /\ a # c
          /\ a \in DepsOf(tasks, b)
          /\ b \in DepsOf(tasks, c)

\* C3: whenever addDependency(sourceId, targetId) returns true, sourceId is
\* then the last element of the dependencies of the task with id targetId,
\* and the dependencies of every other task are unchanged.
C3_AddedSourceIsLast ==
    [][\A s \in ArgIds, t \in ArgIds :
          (last'.op = "addDependency" /\ last'.ret = TRUE /\ addDependency(s, t))
          => /\ \E i \in Indices(tasks') :
                   /\ tasks'[i].id = t
                   /\ tasks'[i].dependencies # <<>>
                   /\ tasks'[i].dependencies[Len(tasks'[i].dependencies)] = s
             /\ Len(tasks') = Len(tasks)
             /\ \A i \in Indices(tasks) :
                   tasks[i].id # t
                   => tasks'[i].dependencies = tasks[i].dependencies]_vars

\* C4: addDependency(x, x) returns false for every id x, whether or not a
\* task has that id.
C4_SelfDependencyRefused ==
    \A x \in ArgIds : ~addDependencyReturns(tasks, x, x)

\* A self-dependency was refused while a task exists: the call named that
\* task or an id that no task has.
C4_SelfDependencyWarned ==
    /\ last.op = "addDependency"
    /\ last.warn = WarnSelf
    /\ last.ret = FALSE
    /\ tasks # <<>>

\* C5: through addTask, toggleTask, deleteTask, addDependency and
\* removeDependency no dependencies list comes to hold an id twice, and
\* addDependency(s, t) returns false whenever s is already in t.dependencies.
C5_NoDuplicateEdges ==
    /\ \A i \in Indices(tasks) : NoDuplicates(tasks[i].dependencies)
    /\ \A s \in ArgIds, t \in ArgIds :
          s \in DepsOf(tasks, t) => ~addDependencyReturns(tasks, s, t)

\* An edge that was already there was refused.
C5_DuplicateWarned ==
    /\ last.op = "addDependency"
    /\ last.warn = WarnDuplicate
    /\ \E i \in Indices(tasks) : tasks[i].dependencies # <<>>

\* C6: whenever addDependency returns false, the task collection and
\* selectedTaskId are what they were before the call.
C6_RefusalChangesNothing ==
    [][(last'.op = "addDependency" /\ last'.ret = FALSE)
          => (tasks' = tasks /\ selectedTaskId' = selectedTaskId)]_vars

\* A call was refused while tasks exist and one is selected.
C6_RefusedWithSelection ==
    /\ last.op = "addDependency"
    /\ last.ret = FALSE
    /\ tasks # <<>>
    /\ selectedTaskId # NULL

\* C7: after removeDependency(s, t), s is not in t.dependencies, the other
\* elements of t.dependencies keep their order, every other task and every
\* other field is unchanged; with the edge absent or no task t the
\* collection is unchanged.
C7_RemoveDependencyFrame ==
    \A s \in ArgIds, t \in ArgIds :
        LET after == removeDependencyResult(tasks, s, t)
        IN  /\ Len(after) = Len(tasks)
            /\ \A i \in Indices(tasks) :
                  IF tasks[i].id = t
                  THEN /\ RemovedFrom(tasks[i].dependencies, after[i].dependencies, s)
                       /\ after[i] =
                            [tasks[i] EXCEPT !.dependencies = after[i].dependencies]
                  ELSE after[i] = tasks[i]
            /\ (s \notin DepsOf(tasks, t) => after = tasks)

\* An edge was removed from a list that keeps two or more other entries.
C7_RemovedFromLongList ==
    /\ last.op = "removeDependency"
    /\ last.changed
    /\ \E i \in Indices(tasks) : Len(tasks[i].dependencies) >= 2

\* C8: for any pair (s, t) whose edge is present, removeDependency(s, t)
\* followed immediately by addDependency(s, t) returns true and restores the
\* edge.
C8_RemoveThenAddSucceeds ==
    \A i \in Indices(tasks) :
        \A s \in Entries(tasks[i].dependencies) :
            LET t == tasks[i].id
                removed == removeDependencyResult(tasks, s, t)
            IN  /\ addDependencyReturns(removed, s, t)
                /\ s \in DepsOf(addDependencyResult(removed, s, t), t)

\* C9: after deleteTask(id) no task has that id, no remaining task's
\* dependencies contains id, and every other dependency entry of every
\* remaining task is kept.
C9_DeleteTaskCascade ==
    \A id \in ArgIds :
        LET after == deleteTaskResult(tasks, id)
        IN  /\ id \notin TaskIds(after)
            /\ \A k \in Indices(after) : id \notin Entries(after[k].dependencies)
            /\ Len(after) = Cardinality({i \in Indices(tasks) : tasks[i].id # id})
            /\ \A i \in Indices(tasks) :
                  tasks[i].id # id
                  => \E k \in Indices(after) :
                        /\ after[k].id = tasks[i].id
                        /\ RemovedFrom(tasks[i].dependencies,
                                       after[k].dependencies, id)

\* A task was deleted and a remaining task still has dependencies.
C9_DeletedWithEdgesLeft ==
    /\ last.op = "deleteTask"
    /\ last.changed
    /\ \E i \in Indices(tasks) : tasks[i].dependencies # <<>>

\* C10: through addTask, toggleTask, deleteTask, addDependency and
\* removeDependency every id in any task's dependencies is the id of a task
\* in the collection.
C10_NoDanglingEdges ==
    \A i \in Indices(tasks) : Entries(tasks[i].dependencies) \subseteq TaskIds(tasks)

\* C11: after deleteTask(id), selectedTaskId is never id: it is null if id
\* was selected before the call, and unchanged if another id or nothing was
\* selected.
C11_DeleteTaskSelection ==
    [][\A id \in ArgIds :
          (last'.op = "deleteTask" /\ deleteTask(id))
          => /\ selectedTaskId' # Some(id)
             /\ (selectedTaskId = Some(id) => selectedTaskId' = NULL)
             /\ (selectedTaskId # Some(id) => selectedTaskId' = selectedTaskId)]_vars

\* A task was deleted while another task was selected: the selected task
\* is still in the collection and still selected.
C11_OtherSelectionKept ==
    /\ last.op = "deleteTask"
    /\ last.changed
    /\ selectedTaskId # NULL
    /\ selectedTaskId[1] \in TaskIds(tasks)

\* C12: for every task and every collection of tasks with distinct ids,
\* isTaskBlocked(task, allTasks) is true if and only if some id in
\* task.dependencies is the id of a task of allTasks with status todo; it
\* is false when dependencies is empty, and when no dependency has a
\* matching task.
C12_BlockedIffTodoDependency ==
    \A i \in Indices(tasks) :
        LET deps == Entries(tasks[i].dependencies)
            blocked == isTaskBlocked(tasks[i], tasks)
        IN  /\ blocked <=>
                   \E d \in deps : \E j \in Indices(tasks) :
                       tasks[j].id = d /\ tasks[j].status = "todo"
            /\ (deps = {} => ~blocked)
            /\ (deps \cap TaskIds(tasks) = {} => ~blocked)

\* isTaskBlocked answered true for a collection in which a task depends on
\* an id of no task and on a task with status todo.
C12_BlockedBesideMissing ==
    /\ last.op = "isTaskBlocked"
    /\ last.ret = TRUE
    /\ Len(tasks) = 2
    /\ \E i \in Indices(tasks) :
          /\ tasks[i].dependencies # <<>>
          /\ tasks[i].dependencies[1] \notin TaskIds(tasks)
          /\ isTaskBlocked(tasks[i], tasks)

Bucket(ts, task) ==
    IF Entries(task.dependencies) = {} THEN 0
    ELSE IF \A d \in Entries(task.dependencies) :
               \E j \in Indices(ts) : ts[j].id = d /\ ts[j].status = "done"
         THEN 1
         ELSE 2

C15_DueDateStatusThresholds ==
    \A i \in Indices(tasks) :
        LET dueDate == tasks[i].dueDate
            status == getDueDateStatus(dueDate, now)
        IN  /\ status = NoStatus <=> dueDate = NULL
            /\ dueDate # NULL =>
                  LET diff == dueDate[1] - now
                  IN  /\ status = "overdue" <=> diff < 0
                      /\ status = "urgent" <=> (0 <= diff /\ diff < MS_PER_DAY)
                      /\ status = "soon" <=> (MS_PER_DAY <= diff /\ diff < 3 * MS_PER_DAY)
                      /\ status = "normal" <=> diff >= 3 * MS_PER_DAY

\* C16: in every state reached through addSubtask, toggleSubtask and
\* deleteSubtask, getSubtaskProgress(task) returns total equal to the number
\* of subtasks of the task and done equal to the number of those with
\* done = true, so 0 <= done <= total.
C16_SubtaskProgressCounts ==
    \A i \in Indices(tasks) :
        LET progress == getSubtaskProgress(tasks[i])
            subs == tasks[i].subtasks
        IN  /\ progress.total = Cardinality(Indices(subs))
            /\ progress.done = Cardinality({k \in Indices(subs) : subs[k].done})
            /\ 0 <= progress.done
            /\ progress.done <= progress.total

\* The progress asked for after three subtasks were added, one was deleted
\* and one of the two left was toggled to done.
C16_OneOfTwoDone ==
    /\ last.op = "getSubtaskProgress"
    /\ last.ret = [done |-> 1, total |-> 2]
    /\ nextSubId = 4
    /\ \E i \in Indices(tasks) :
          /\ Len(tasks[i].subtasks) = 2
          /\ getSubtaskProgress(tasks[i]).done = 1

\* The coordinates snapToGrid is applied to in this state.
Coordinates == UNION {{tasks[i].position.x, tasks[i].position.y} : i \in Indices(tasks)}

\* C17: for every integer v of a range with negative values,
\* snapToGrid(snapToGrid(v)) = snapToGrid(v).
C17_SnapIdempotent ==
    \A v \in Coordinates : snapToGrid(snapToGrid(v)) = snapToGrid(v)

\* snapToGrid moved a negative coordinate that was off the grid.
C17_NegativeSnapped ==
    /\ last.op = "snapToGrid"
    /\ last.ret < 0
    /\ \E v \in Coordinates :
          /\ v < 0
          /\ v % GRID_SIZE # 0
          /\ last.ret = snapToGrid(v)

\* C18: for every integer v of a range with negative values, snapToGrid(v)
\* is a multiple of GRID_SIZE at distance 10 or less from v: no other
\* multiple of GRID_SIZE is strictly nearer to v.
C18_SnapNearestMultiple ==
    \A v \in Coordinates :
        LET s == snapToGrid(v)
            Dist(a, b) == IF a >= b THEN a - b ELSE b - a
        IN  /\ s % GRID_SIZE = 0
            /\ Dist(s, v) <= GRID_SIZE \div 2
            /\ \A m \in (-(MaxSnapValue + GRID_SIZE))..(MaxSnapValue + GRID_SIZE) :
                  m % GRID_SIZE = 0 => Dist(s, v) <= Dist(m, v)

\* snapToGrid was handed a negative coordinate halfway between two
\* multiples and returned the upper one, at distance 10.
C18_NegativeHalfway ==
    /\ last.op = "snapToGrid"
    /\ \E v \in Coordinates :
          /\ v < 0
          /\ v % GRID_SIZE = GRID_SIZE \div 2
          /\ last.ret = snapToGrid(v)
          /\ last.ret - v = GRID_SIZE \div 2

\* C19: in every state reached from the empty store by addTask, deleteTask,
\* toggleTask, addDependency, removeDependency, updateTaskPosition with any
\* integer point, cleanupPositions and a drop on the canvas
\* (getNonOverlappingPosition, then updateTaskPosition), every task has a
\* position and both of its coordinates are multiples of GRID_SIZE.
C19_PositionsOnGrid ==
    \A i \in Indices(tasks) :
        /\ tasks[i].position # NULL
        /\ tasks[i].position.x % GRID_SIZE = 0
        /\ tasks[i].position.y % GRID_SIZE = 0

\* A drop with two tasks on the canvas ended elsewhere than on the snapped
\* drop point: the search moved the node off another one.
C19_DropMovedAside ==
    /\ last.op = "onNodeDragStop"
    /\ last.changed
    /\ Len(tasks) = 2
    /\ last.ret \notin {snapPosition(point) : point \in CanvasPoints}
    /\ \E i \in Indices(tasks) : tasks[i].position = last.ret

\* C20: after cleanupPositions, from any task collection (tasks without a
\* position or off the grid included), every task has a position with both
\* coordinates multiples of GRID_SIZE: a position that was there is
\* snapped, a task without one gets the initial position of its index; ids,
\* order, titles, statuses and the dependencies that were there are
\* unchanged, and cleanupPositions once more changes nothing.
C20_CleanupPositions ==
    LET after == cleanupPositionsResult(tasks)
    IN  /\ Len(after) = Len(tasks)
        /\ \A i \in Indices(tasks) :
              LET before == FieldOr(tasks[i], "position", NULL)
              IN  /\ after[i].position # NULL
                  /\ after[i].position.x % GRID_SIZE = 0
                  /\ after[i].position.y % GRID_SIZE = 0
                  /\ before # NULL =>
                        /\ after[i].position.x = snapToGrid(before.x)
                        /\ after[i].position.y = snapToGrid(before.y)
                  /\ before = NULL => after[i].position = getInitialPosition(i - 1)
                  /\ after[i].id = tasks[i].id
                  /\ after[i].title = tasks[i].title
                  /\ after[i].status = tasks[i].status
                  /\ "dependencies" \in DOMAIN tasks[i] =>
                        after[i].dependencies = tasks[i].dependencies
        /\ cleanupPositionsResult(after) = after

\* cleanupPositions changed a collection of two tasks: the first is where
\* only the snap of the off-grid position puts it, the second at the
\* initial position of its index, which no input has.
C20_SnappedAndPlaced ==
    /\ last.op = "cleanupPositions"
    /\ last.changed
    /\ Len(tasks) = 2
    /\ tasks[1].position = [x |-> 80, y |-> -20]
    /\ tasks[2].position = getInitialPosition(1)
    /\ tasks[2].dependencies = <<>>

\* C21: after addTask(title) the collection is the new task followed by the
\* previous collection, unchanged and in the same order; the new task has
\* the given title, status todo, empty dependencies, dueDate null, empty
\* description, empty subtasks, an id that no existing task has, and a
\* position on the grid computed from the number of tasks present before
\* the call.
C21_AddTaskPrepends ==
    \A title \in {"a", "b"} :
        LET after == addTaskResult(tasks, nextId, title, now + 1)
            newTask == Head(after)
        IN  /\ Len(after) = Len(tasks) + 1
            /\ Tail(after) = tasks
            /\ newTask.title = title
            /\ newTask.status = "todo"
            /\ newTask.dependencies = <<>>
            /\ newTask.dueDate = NULL
            /\ newTask.description = ""
            /\ newTask.subtasks = <<>>
            /\ newTask.id \notin TaskIds(tasks)
            /\ newTask.position = getInitialPosition(Len(tasks))
            /\ newTask.position.x % GRID_SIZE = 0
            /\ newTask.position.y % GRID_SIZE = 0

\* A task was added in front of one that has a dependency entry and is
\* done.
C21_AddedInFrontOfOthers ==
    /\ last.op = "addTask"
    /\ Len(tasks) = 2
    /\ tasks[1].status = "todo"
    /\ tasks[1].position = getInitialPosition(1)
    /\ tasks[2].status = "done"
    /\ tasks[2].dependencies # <<>>

\* C22: for any sequence of addTask and deleteTask calls, a task created by
\* addTask never receives an initial position equal to the position of a
\* task already in the collection: tasks that were never moved never stack
\* on the same coordinate.
C22_FreshTasksNeverStack ==
    \A i \in Indices(tasks), j \in Indices(tasks) :
        i # j => tasks[i].position # tasks[j].position

\* C23: toggleTask(id) on an existing task changes its status from todo to
\* done or from done to todo, blocked or not, and nothing else: every other
\* field of the task, every other task and selectedTaskId are unchanged,
\* and a second toggleTask(id) restores the state.
C23_ToggleTaskFrame ==
    [][\A id \in TaskIds(tasks) :
          (last'.op = "toggleTask" /\ toggleTask(id))
          => /\ Len(tasks') = Len(tasks)
             /\ \A i \in Indices(tasks) :
                   IF tasks[i].id = id
                   THEN /\ tasks'[i].status # tasks[i].status
                        /\ tasks'[i].status \in {"todo", "done"}
                        /\ tasks'[i] = [tasks[i] EXCEPT !.status = tasks'[i].status]
                   ELSE tasks'[i] = tasks[i]
             /\ selectedTaskId' = selectedTaskId
             /\ toggleTaskResult(tasks', id) = tasks]_vars

\* A toggle took effect while a task is selected, and a task that is
\* blocked has status done.
C23_ToggledWhileBlocked ==
    /\ last.op = "toggleTask"
    /\ last.changed
    /\ selectedTaskId # NULL
    /\ \E i \in Indices(tasks) :
          /\ tasks[i].status = "done"
          /\ isTaskBlocked(tasks[i], tasks)

\* C24: in any reachable state, one where selectedTaskId holds an id that no
\* task has included, toggleTask, updateTask, deleteTask,
\* updateTaskPosition, addSubtask, toggleSubtask and deleteSubtask called
\* with a task id that is not in the collection leave the task collection
\* and selectedTaskId unchanged.
C24_MissingIdNoOp ==
    [][\A id \in ArgIds \ TaskIds(tasks) :
          (\/ toggleTask(id)
           \/ \E updates \in ArgUpdates : updateTask(id, updates)
           \/ deleteTask(id)
           \/ \E position \in ArgPoints : updateTaskPosition(id, position)
           \/ addSubtask(id, "s")
           \/ \E subtaskId \in ArgSubIds : toggleSubtask(id, subtaskId)
           \/ \E subtaskId \in ArgSubIds : deleteSubtask(id, subtaskId))
          => (tasks' = tasks /\ selectedTaskId' = selectedTaskId)]_vars

\* C25: after updateTask(id, partialFields) on an existing task, each field
\* named in partialFields has the given value, each field not named keeps
\* its value, and the tasks with another id, the order of the collection
\* and selectedTaskId are unchanged.
C25_UpdateTaskFrame ==
    [][\A id \in TaskIds(tasks), updates \in ArgPartialTasks :
          (last'.op = "updateTask" /\ updateTask(id, updates))
          => /\ Len(tasks') = Len(tasks)
             /\ \A i \in Indices(tasks) :
                   IF tasks[i].id = id
                   THEN /\ DOMAIN tasks'[i] = (DOMAIN tasks[i]) \cup (DOMAIN updates)
                        /\ \A f \in DOMAIN updates : tasks'[i][f] = updates[f]
                        /\ \A f \in (DOMAIN tasks[i]) \ (DOMAIN updates) :
                              tasks'[i][f] = tasks[i][f]
                   ELSE tasks'[i] = tasks[i]
             /\ selectedTaskId' = selectedTaskId]_vars

\* An update took effect while a task is selected, and a task holds the
\* two fields of one update beside a title that was not updated.
C25_TwoFieldsUpdated ==
    /\ last.op = "updateTask"
    /\ last.changed
    /\ selectedTaskId # NULL
    /\ Len(tasks) = 2
    /\ \E i \in Indices(tasks) :
          /\ tasks[i].status = "done"
          /\ tasks[i].description = "d"
          /\ tasks[i].title = "a"

\* The id and createdAt of every task, in the order of the collection.
Identities(ts) == [i \in Indices(ts) |-> <<ts[i].id, ts[i].createdAt>>]

\* C26: under any sequence of store operations with any arguments, the id
\* and createdAt of a task never change between its creation by addTask
\* and its deletion: addTask puts a task in front of the others, deleteTask
\* takes tasks away, and no operation changes the id or createdAt of a task
\* that stays.
C26_IdAndCreatedAtImmutable ==
    [][CASE last'.op = "addTask" ->
                Tail(Identities(tasks')) = Identities(tasks)
         [] last'.op = "deleteTask" ->
                Identities(tasks') =
                    SelectSeq(Identities(tasks),
                              LAMBDA p : p \in Entries(Identities(tasks')))
         [] OTHER ->
                Identities(tasks') = Identities(tasks)]_vars


\* C27: a task's status is changed only by toggleTask on that task or by an
\* updateTask that names status: in every step that changes the status of
\* a task that stays in the collection, the step is toggleTask of that
\* task's id or updateTask of that id with a status; addDependency,
\* removeDependency, deleteTask of another task, updateTaskPosition,
\* cleanupPositions and the subtask operations change no status.
C27_StatusOnlyByToggle ==
    [][\A id \in TaskIds(tasks) \cap TaskIds(tasks') :
          tasks'[FindTask(tasks', id)].status # tasks[FindTask(tasks, id)].status
              => \/ last'.op = "toggleTask" /\ toggleTask(id)
                 \/ /\ last'.op = "updateTask"
                    /\ \E updates \in StatusUpdates :
                          "status" \in DOMAIN updates /\ updateTask(id, updates)]_vars

\* Witness for C27: deleteTask has removed a task and a done task with a
\* subtask stays done, away from its initial position.
C27_DoneTaskOutlivesDelete ==
    /\ last.op = "deleteTask"
    /\ last.changed
    /\ \E i \in Indices(tasks) :
          /\ tasks[i].status = "done"
          /\ tasks[i].subtasks # <<>>
          /\ tasks[i].position = snapPosition([x |-> 30, y |-> -10])

\* The subtask ids of a task, in the order of its list.
SubtaskIds(task) == [k \in Indices(task.subtasks) |-> task.subtasks[k].id]

\* C28: toggleSubtask(taskId, subtaskId) negates the done flag of exactly
\* the subtask with that id inside that task: for every task id and subtask
\* id a caller can name, in the collection toggleSubtask returns the tasks
\* with another id are the same, the named task differs at most in its
\* subtasks (so its status is the same, also when every subtask is now
\* done), its subtasks have the same ids, titles and order, the flag of the
\* subtask with that id is negated and at most one such subtask exists, and
\* the flags of the others are the same.
C28_ToggleSubtaskFrame ==
    \A taskId \in ArgIds, subtaskId \in ArgSubIds :
        LET after == toggleSubtaskResult(tasks, taskId, subtaskId)
        IN  /\ Len(after) = Len(tasks)
            /\ \A i \in Indices(tasks) :
                  LET old == tasks[i].subtasks
                      new == after[i].subtasks
                      hit == {k \in Indices(old) : old[k].id = subtaskId}
                  IN  IF tasks[i].id # taskId
                      THEN after[i] = tasks[i]
                      ELSE /\ [after[i] EXCEPT !.subtasks = old] = tasks[i]
                           /\ after[i].status = tasks[i].status
                           /\ Len(new) = Len(old)
                           /\ Cardinality(hit) <= 1
                           /\ \A k \in Indices(old) :
                                 /\ new[k].id = old[k].id
                                 /\ new[k].title = old[k].title
                                 /\ new[k].done = IF k \in hit
                                                  THEN ~old[k].done
                                                  ELSE old[k].done

\* Witness for C28: toggleSubtask has made the last open subtask of a task
\* with two subtasks done, the task is still todo and another task is there.
C28_AllSubtasksDoneStillTodo ==
    /\ last.op = "toggleSubtask"
    /\ last.changed
    /\ Len(tasks) = 2
    /\ \E i \in Indices(tasks) :
          /\ Len(tasks[i].subtasks) = 2
          /\ \A k \in Indices(tasks[i].subtasks) : tasks[i].subtasks[k].done
          /\ tasks[i].status = "todo"

\* The subtask ids in the whole collection.
AllSubtaskIds(ts) == UNION {Entries(SubtaskIds(ts[i])) : i \in Indices(ts)}

\* C29: in every state reachable through addSubtask, toggleSubtask and
\* deleteSubtask the subtask ids within one task are pairwise distinct; for
\* every task id a caller can name, addSubtask leaves the subtasks that were
\* there in their places and puts one subtask behind them, with an id no
\* subtask has, the given title and done = false; for every task id and
\* subtask id, deleteSubtask leaves the list of that task without the
\* subtasks of that id and with the others as they were, in their order.
C29_SubtaskIdsDistinct ==
    /\ \A i \in Indices(tasks) : NoDuplicates(SubtaskIds(tasks[i]))
    /\ nextSubId \notin AllSubtaskIds(tasks)
    /\ \A taskId \in ArgIds :
          LET after == addSubtaskResult(tasks, taskId, nextSubId, "s")
          IN  \A i \in Indices(tasks) :
                  LET old == tasks[i].subtasks
                      new == after[i].subtasks
                  IN  tasks[i].id = taskId =>
                          /\ Len(new) = Len(old) + 1
                          /\ SubSeq(new, 1, Len(old)) = old
                          /\ new[Len(new)] =
                                 [id |-> nextSubId, title |-> "s", done |-> FALSE]
    /\ \A taskId \in ArgIds, subtaskId \in ArgSubIds :
          LET after == deleteSubtaskResult(tasks, taskId, subtaskId)
          IN  \A i \in Indices(tasks) :
                  LET old == tasks[i].subtasks
                      new == after[i].subtasks
                  IN  tasks[i].id = taskId =>
                          /\ RemovedFrom(SubtaskIds(tasks[i]), SubtaskIds(after[i]),
                                         subtaskId)
                          /\ Len(old) - Len(new) <= 1
                          /\ Entries(new) \subseteq Entries(old)

\* Witness for C29: deleteSubtask has removed the first of the subtasks of
\* a task, and the one added after it is left, done.
C29_FirstSubtaskDeleted ==
    /\ last.op = "deleteSubtask"
    /\ last.changed
    /\ \E i \in Indices(tasks) :
          /\ SubtaskIds(tasks[i]) = <<2>>
          /\ tasks[i].subtasks[1].done

\* C30: after the migration step runs on a persisted record whose version
\* is older than the current one (3), every task in the result has
\* dependencies (the empty list when it had none), dueDate (null),
\* description (the empty string), subtasks (the empty list) and a
\* position, and the fields that were present keep their values.
C30_MigrateBackfills ==
    last.op = "persisted" /\ "tasks" \in DOMAIN last.ret =>
        \A version \in OldVersions :
            LET before == last.ret.tasks
                after == migrate(last.ret, version).tasks
            IN  /\ Len(after) = Len(before)
                /\ \A i \in Indices(before) :
                      /\ LaterFields \subseteq DOMAIN after[i]
                      /\ after[i].position # NULL
                      /\ "dependencies" \notin DOMAIN before[i]
                            => after[i].dependencies = <<>>
                      /\ "dueDate" \notin DOMAIN before[i]
                            => after[i].dueDate = NULL
                      /\ "description" \notin DOMAIN before[i]
                            => after[i].description = ""
                      /\ "subtasks" \notin DOMAIN before[i]
                            => after[i].subtasks = <<>>
                      /\ \A f \in DOMAIN before[i] : after[i][f] = before[i][f]

\* A value migrate may return for the record given: a record with the same
\* fields, and as many tasks, each a record with at least the fields it had.
WellFormedResult(record, result) ==
    /\ DOMAIN result = DOMAIN record
    /\ "tasks" \in DOMAIN record =>
          /\ Len(result.tasks) = Len(record.tasks)
          /\ \A i \in Indices(record.tasks) :
                DOMAIN record.tasks[i] \subseteq DOMAIN result.tasks[i]

\* C31: the migration step is idempotent and total: for every persisted
\* record (tasks with any subset of the later fields missing, or no tasks
\* field at all), migrated or not yet, and every version, migrate returns a
\* record of the same shape, and migrate applied to that result with the
\* same version returns an equal result.
C31_MigrateIdempotent ==
    last.op \in {"persisted", "migrate"} =>
        \A version \in StoredVersions :
            LET once == migrate(last.ret, version)
            IN  /\ WellFormedResult(last.ret, once)
                /\ migrate(once, version) = once

\* Witness for C31: a record whose task lacked every later field has been
\* migrated from an older version, and the defaults are in the result.
C31_MigratedFromOldest ==
    /\ last.op = "migrate"
    /\ Len(tasks) = 2
    /\ \E i \in Indices(tasks) :
          /\ "position" \notin DOMAIN tasks[i]
          /\ tasks[i].subtasks = <<>>
          /\ tasks[i].description = ""
    /\ last.ret.tasks = tasks

\* The nodes of the canvas other than the one with the id given.
OtherNodes(id) ==
    {node \in Entries(tasksToNodes(tasks)) : node.id # id}

\* position overlaps none of the other nodes, with padding 20.
FreeOf(position, id) ==
    \A node \in OtherNodes(id) :
        \/ position.x >= node.position.x + NODE_WIDTH + 20
        \/ position.x + NODE_WIDTH + 20 <= node.position.x
        \/ position.y >= node.position.y + NODE_HEIGHT + 20
        \/ position.y + NODE_HEIGHT + 20 <= node.position.y

\* C32: getNonOverlappingPosition terminates after at most 50 collision
\* probes for every moved node and node set, never tests the moved node
\* against itself (a drop point free of the other nodes is returned
\* snapped, though the node's own position overlaps it), and whenever it
\* returns before the budget is exhausted (its last probe found no
\* collision) the position returned is that probe and overlaps the
\* position of no other node.
C32_PlacementBounded ==
    \A id \in TaskIds(tasks), point \in DropPoints :
        LET dragged == [id |-> id, position |-> point]
            probes == probedPositions(dragged, tasksToNodes(tasks))
            result == getNonOverlappingPosition(dragged, tasksToNodes(tasks))
        IN  /\ Len(probes) >= 1
            /\ Len(probes) <= 50
            /\ FreeOf(snapPosition(point), id) => result = snapPosition(point)
            /\ FreeOf(probes[Len(probes)], id) =>
                  /\ result = probes[Len(probes)]
                  /\ FreeOf(result, id)
            /\ Len(probes) < 50 => FreeOf(probes[Len(probes)], id)

\* Witness for C32: a node dropped on a block of other nodes was placed
\* after more than five probes, in a later column, free of them.
C32_PlacedInLaterColumn ==
    /\ last.op = "getNonOverlappingPosition"
    /\ Len(tasks) > 2
    /\ \E point \in DropPoints :
          LET probes == probedPositions([id |-> 1, position |-> point],
                                        tasksToNodes(tasks))
          IN  /\ Len(probes) > 5
              /\ Len(probes) < 50
              /\ last.ret = probes[Len(probes)]
              /\ FreeOf(last.ret, 1)

\* C33: when getNonOverlappingPosition exhausts its attempt budget (all 50
\* probed positions collide), the position it returns is the last position
\* that was probed for collision.
C33_ExhaustedReturnsLastProbe ==
    \A id \in TaskIds(tasks), point \in DropPoints :
        LET dragged == [id |-> id, position |-> point]
            probes == probedPositions(dragged, tasksToNodes(tasks))
            result == getNonOverlappingPosition(dragged, tasksToNodes(tasks))
        IN  Len(probes) = 50 /\ ~FreeOf(probes[50], id) => result = probes[50]

\* C35: getNonOverlappingPosition probes first the snapped drop position;
\* after each collision the candidate moves down by GRID_SIZE, and after
\* five probes in a column it moves one column to the right with y back at
\* the snapped drop y; the first probed position that is collision-free is
\* the one returned.
C35_ProbeOrder ==
    \A id \in TaskIds(tasks), point \in DropPoints :
        LET dragged == [id |-> id, position |-> point]
            probes == probedPositions(dragged, tasksToNodes(tasks))
            result == getNonOverlappingPosition(dragged, tasksToNodes(tasks))
        IN  /\ probes[1] = snapPosition(point)
            /\ \A k \in 1..(Len(probes) - 1) :
                  IF k % 5 = 0
                  THEN /\ probes[k + 1].x > probes[k].x
                       /\ probes[k + 1].y = snapToGrid(point.y)
                  ELSE /\ probes[k + 1].x = probes[k].x
                       /\ probes[k + 1].y = probes[k].y + GRID_SIZE
            /\ \A k \in Indices(probes) :
                  FreeOf(probes[k], id) => k = Len(probes) /\ result = probes[k]

\* C36: wouldCreateCycle(tasks, sourceId, targetId) terminates for every
\* finite task collection, including collections whose dependency graph
\* has cycles, dangling ids or duplicate entries: for every pair of ids it
\* returns true or false, no id is handed to visited.add twice, and the
\* ids marked are targetId or ids of tasks, so at most one more than there
\* are tasks.
C36_CycleCheckTerminates ==
    \A sourceId \in TaskIds(tasks) \cup {GhostId},
       targetId \in TaskIds(tasks) \cup {GhostId} :
        LET visits == cycleVisits(tasks, sourceId, <<targetId>>, {})
        IN  /\ wouldCreateCycle(tasks, sourceId, targetId) \in BOOLEAN
            /\ NoDuplicates(visits)
            /\ Entries(visits) \subseteq TaskIds(tasks) \cup {targetId}
            /\ Len(visits) <= Len(tasks) + 1

\* Witness for C36: the check has returned false on a collection with a
\* cycle, a dangling id and a duplicate entry.
C36_CheckedOnCyclicCollection ==
    /\ last.op = "wouldCreateCycle"
    /\ last.ret = FALSE
    /\ ~Acyclic(tasks)
    /\ \E i \in Indices(tasks) : ~NoDuplicates(tasks[i].dependencies)
    /\ \E i \in Indices(tasks) : GhostId \in Entries(tasks[i].dependencies)

\* C37: in every state reachable from the empty store by addTask,
\* toggleTask, deleteTask, addDependency and removeDependency with any id
\* arguments the two selectors agree: for every task with at least one
\* dependency, getSortedTasks gives it priority 2 if and only if
\* isTaskBlocked is true for it.
C37_SelectorsAgree ==
    \A i \in Indices(tasks) :
        tasks[i].dependencies # <<>> =>
            (getTaskPriority(tasks, tasks[i]) = 2 <=> isTaskBlocked(tasks[i], tasks))

\* C39: for any two distinct insertion indices i and j of 0..MaxInitialIndex
\* the positions getInitialPosition(i) and getInitialPosition(j) are
\* different and do not overlap according to isOverlapping with the
\* default padding of 20.
C39_InitialPositionsApart ==
    last.op = "indices" /\ last.ret[1] # last.ret[2] =>
        /\ getInitialPosition(last.ret[1]) # getInitialPosition(last.ret[2])
        /\ ~isOverlapping(getInitialPosition(last.ret[1]),
                          getInitialPosition(last.ret[2]))

\* Witness for C39: the position asked for is the first of a later row.
C39_FirstOfLaterRow ==
    /\ last.op = "getInitialPosition"
    /\ last.ret.x = getInitialPosition(0).x
    /\ last.ret.y > getInitialPosition(0).y + NODE_HEIGHT

\* C40: no operation reorders the collection: toggleTask,
\* updateTaskPosition, cleanupPositions, addDependency, removeDependency,
\* selectTask and the subtask operations leave the sequence of task ids as
\* it is, addTask puts an id no task has at index 0 in front of it, and
\* deleteTask takes out only the id given, so the surviving tasks are in
\* the order they were in.
C40_OrderKept ==
    [][CASE last'.op = "addTask" ->
                /\ Tail(IdsOf(tasks')) = IdsOf(tasks)
                /\ Head(IdsOf(tasks')) \notin Entries(IdsOf(tasks))
         [] last'.op = "deleteTask" ->
                \E id \in ArgIds :
                    /\ deleteTask(id)
                    /\ IdsOf(tasks') = SelectSeq(IdsOf(tasks), LAMBDA x : x # id)
         [] OTHER ->
                IdsOf(tasks') = IdsOf(tasks)]_vars

\* Witness for C40: deleteTask has taken the middle one of three tasks,
\* after a subtask was added to it; the two others are left, the newer in
\* front.
C40_MiddleTaskDeleted ==
    /\ last.op = "deleteTask"
    /\ last.changed
    /\ IdsOf(tasks) = <<3, 1>>
    /\ nextSubId = 2

\* C34: in CanvasView the effect never executes cleanupPositions itself: a
\* step of the effect (the first run at the mount, or a later run) leaves
\* the tasks as they are and takes no timer off the queue, and the tasks
\* are cleaned up by the canvas only in a step of its own that takes a
\* queued timer off the queue. A timer is queued at most once per mount:
\* the queue grows only by one, only in a step of the effect that sets the
\* cleanupDone ref of its instance, and the ref once set stays set until
\* the next mount.
C34_CleanupDeferredOncePerMount ==
    [][/\ last'.op \in {"mountCanvas", "cleanupEffect"} =>
            /\ tasks' = tasks
            /\ Len(canvas'.timers) >= Len(canvas.timers)
       /\ last'.op = "cleanupTimer" =>
            /\ canvas.timers # <<>>
            /\ canvas'.timers = Tail(canvas.timers)
       /\ Len(canvas'.timers) > Len(canvas.timers) =>
            /\ last'.op \in {"mountCanvas", "cleanupEffect"}
            /\ Len(canvas'.timers) = Len(canvas.timers) + 1
            /\ canvas'.cleanupDone
            /\ last'.op = "cleanupEffect" => ~canvas.cleanupDone
       /\ (canvas.cleanupDone /\ ~canvas'.cleanupDone) => last'.op = "mountCanvas"
      ]_vars

\* The effect ran once more on a canvas with tasks, after the timer of
\* its mount had run, and queued nothing.
C34_EffectRanAgainAfterCleanup ==
    /\ last.op = "cleanupEffect"
    /\ canvas.mounted
    /\ canvas.cleanupDone
    /\ canvas.timers = <<>>
    /\ tasks # <<>>

\* C38: what the store was made between the queueing of the cleanup and
\* its run is kept: the timer step leaves the tasks that are in the store
\* when it runs, in their order, each with the id, status, title,
\* dependencies and subtasks it had right before, so that a task deleted
\* since the queueing is not back.
C38_CleanupKeepsInterimMutations ==
    [][last'.op = "cleanupTimer" =>
            /\ Len(tasks') = Len(tasks)
            /\ \A i \in Indices(tasks) :
                  /\ tasks'[i].id = tasks[i].id
                  /\ tasks'[i].status = tasks[i].status
                  /\ tasks'[i].title = tasks[i].title
                  /\ tasks'[i].dependencies = tasks[i].dependencies
                  /\ tasks'[i].subtasks = tasks[i].subtasks
      ]_vars

\* The timer ran with a callback queued while tasks 2 and 1 were held:
\* since then task 2 was deleted and task 1 renamed, toggled and moved off
\* the grid, and the cleanup left task 1 alone in the store, done, renamed
\* and on the grid.
C38_CleanupAfterDeleteAndToggle ==
    /\ last.op = "cleanupTimer"
    /\ last.ret = <<2, 1>>
    /\ last.changed
    /\ Len(tasks) = 1
    /\ tasks[1].id = 1
    /\ tasks[1].status = "done"
    /\ tasks[1].title = "b"
    /\ tasks[1].position = [x |-> 80, y |-> 80]

====
